---- MODULE Spec2Model ----
\* receipt-rs: upload / poll / cache orchestration and the relational
\* persistence of extracted receipts (src/src/main.rs, src/src/manual.rs).
EXTENDS Integers, Sequences, FiniteSets, TLC

VARIABLES
    cache,            \* shuttle_persist KV store: file hash -> stored text, or NoEntry
    submits,          \* remote service: POSTs to the analyze endpoint received, per hash
    polls,            \* remote service: GETs of a result URL received, per process
    receipts,         \* table receipts(id, merchant_name, paid_at, file_sha256)
    products,         \* table products(id, name)
    prices,           \* table prices(receipt_id, product_id, count, unit_price)
    next_receipt_id,  \* serial of receipts.id
    next_product_id,  \* serial of products.id
    pc,               \* position of every request handler / spawned task
    file,             \* file_hash held by a process
    body,             \* text held by a process (poll response body / loaded cache text)
    res,              \* result of the upload handler
    jerr,             \* outcome of a background task or of a save_analysis_data call
    rid,              \* receipt_id returned by insert_receipt_if_not_exists
    cpc,              \* position of the clear_db handler
    rpc,              \* position of each repopulate_db_from_cache handler + outer task
    rqueue,           \* file_hashes still to be spawned by the outer task of a run
    answer,           \* what the remote service answered the POST of an upload with
    bearer            \* the bearer token each request was last made with

vars == <<cache, submits, polls, receipts, products, prices, next_receipt_id,
          next_product_id, pc, file, body, res, jerr, rid, cpc, rpc, rqueue, answer, bearer>>

dbvars == <<receipts, products, prices, next_receipt_id, next_product_id>>

-----------------------------------------------------------------------------
\* Bounds of the model.

\* upload requests over a run
MaxUploads == 2
\* repopulate requests over a run
MaxRepop == 1
\* direct save_analysis_data calls of SpecDb
MaxCalls == 2

\* Postgres maximum number of parameters in a statement
BIND_LIMIT == 65535

\* sha256 digests of the uploaded files
Hashes == {"h1", "h2"}

Uploads == {"up"} \X (1..MaxUploads)
RTasks == {"re"} \X (1..MaxRepop) \X Hashes
Calls == {"db"} \X (1..MaxCalls)
\* the requests on the routes that write: POST /upload, DELETE and PUT /dev/db/all
DeleteAll == <<"del", 1>>

PutAll(r) == <<"put", r>>

Requests == Uploads \cup {DeleteAll} \cup {PutAll(r) : r \in 1..MaxRepop}

Procs == Uploads \cup RTasks \cup Calls

-----------------------------------------------------------------------------
\* Option<T> is a sequence of length 0 (None) or 1 (Some).

NoneOpt == <<>>

Some(x) == <<x>>

\* Option::or
OptOr(a, b) == IF a # NoneOpt THEN a ELSE b

-----------------------------------------------------------------------------
\* Texts: what the KV store and the poll response bodies hold.

NoEntry == [kind |-> "absent"]

\* the placeholder "" written by upload; also an empty response body
EmptyText == [kind |-> "empty"]

\* a body that is not JSON
BadText == [kind |-> "garbage"]

JsonItem(name, quantity, price, total) ==
    [Description |-> name, Quantity |-> quantity, Price |-> price, TotalPrice |-> total]

\* the fields object of a document with all seven receipt fields present
JsonReceipt(items, merchant, content, date, time) ==
    [Items |-> items, MerchantName |-> merchant,
     TaxDetails |-> "array", Total |-> "currency", TotalTax |-> "currency",
     TransactionDate |-> [content |-> content, valueDate |-> date],
     TransactionTime |-> time]

\* the same JSON object with only the keys in K present
Restrict(j, K) == [k \in K \cap DOMAIN j |-> j[k]]

\* a JSON body: the operation object, its optional analyzeResult and documents
JsonText(hasResult, hasDocuments, docs) ==
    [kind |-> "json", analyzeResult |-> hasResult, documents |-> hasDocuments, docs |-> docs]

\* status "running": no analyzeResult yet
RunningText == JsonText(FALSE, FALSE, <<>>)

ItemsA == <<JsonItem("milk", Some(2), Some(10), NoneOpt),
            JsonItem("milk", NoneOpt, NoneOpt, Some(30)),
            JsonItem("bag", NoneOpt, NoneOpt, NoneOpt)>>

DocA == JsonText(TRUE, TRUE,
                 <<JsonReceipt(ItemsA, "Netto", "2024-03-05", "2024-05-03", "14:30:00")>>)

ItemsB == <<JsonItem("bread", NoneOpt, Some(7), Some(14)),
            JsonItem("milk", Some(3), Some(9), NoneOpt)>>

DocB == JsonText(TRUE, TRUE,
                 <<JsonReceipt(ItemsB, "Rema", "05.03.2024", "2024-03-06", "09:00:00")>>)

\* bodies the remote service may answer a poll with
PollBodies == {BadText, RunningText, DocA}

-----------------------------------------------------------------------------
\* Result<T, E>

Ok(v) == [ok |-> TRUE, val |-> v]

Err(e) == [ok |-> FALSE, err |-> e]

Min(a, b) == IF a < b THEN a ELSE b

\* serde field of a numeric item field: Option<{ value_number }>
NumberField(opt) == IF opt = NoneOpt THEN NoneOpt ELSE Some([value_number |-> opt[1]])

\* manual::ValueArray / ValueObject of one JSON item
DecodeItem(j) ==
    [value_object |->
        [description |-> [value_string |-> j.Description],
         quantity |-> NumberField(j.Quantity),
         unit_price |-> NumberField(j.Price),
         total_price |-> NumberField(j.TotalPrice)]]

\* the fields of manual::Receipt: none is an Option, none has a serde default
ReceiptKeys ==
    {"Items", "MerchantName", "TaxDetails", "Total", "TotalTax",
     "TransactionDate", "TransactionTime"}

\* manual::Receipt of one JSON document's fields
DecodeReceipt(j) ==
    [items |-> [value_array |-> [i \in 1..Len(j.Items) |-> DecodeItem(j.Items[i])]],
     merchant_name |-> [value_string |-> j.MerchantName],
     transaction_date |-> [content |-> j.TransactionDate.content,
                           value_date |-> j.TransactionDate.valueDate],
     transaction_time |-> [value_time |-> j.TransactionTime]]

\* serde_json::from_str::<manual::AnalyzeResultOperation>
from_str(text) ==
    IF text.kind # "json" THEN Err("json")
    ELSE IF /\ text.analyzeResult /\ text.documents
            /\ \E i \in 1..Len(text.docs) : ~(ReceiptKeys \subseteq DOMAIN text.docs[i])
         THEN Err("json")
    ELSE Ok([analyzeResult |->
               IF ~text.analyzeResult THEN NoneOpt
               ELSE Some([documents |->
                            IF ~text.documents THEN NoneOpt
                            ELSE Some([i \in 1..Len(text.docs) |->
                                         [fields |-> DecodeReceipt(text.docs[i])]])])])

-----------------------------------------------------------------------------
\* save_analysis_data: extraction (main.rs 432-486)

\* mutant: an empty documents list yields the default (empty) receipt fields
receipt_fields_default(analysis_result) ==
    IF analysis_result.analyzeResult = NoneOpt THEN Err("missing")
    ELSE IF analysis_result.analyzeResult[1].documents = NoneOpt THEN Err("missing")
    ELSE IF Len(analysis_result.analyzeResult[1].documents[1]) = 0
         THEN Ok(DecodeReceipt(JsonReceipt(<<>>, "", "", "", "")))
    ELSE Ok(analysis_result.analyzeResult[1].documents[1][1].fields)

\* analyzeResult / documents / first document, each required
receipt_fields(analysis_result) ==
    IF analysis_result.analyzeResult = NoneOpt THEN Err("missing")
    ELSE IF analysis_result.analyzeResult[1].documents = NoneOpt THEN Err("missing")
    ELSE IF Len(analysis_result.analyzeResult[1].documents[1]) = 0 THEN Err("missing")
    ELSE Ok(analysis_result.analyzeResult[1].documents[1][1].fields)

\* mutant: the total price is preferred over the explicit unit price
item_tuple_total_first(item) ==
    LET p == OptOr(item.value_object.total_price, item.value_object.unit_price) IN
    IF p = NoneOpt THEN NoneOpt
    ELSE Some([name |-> item.value_object.description.value_string,
               count |-> IF item.value_object.quantity # NoneOpt
                         THEN item.value_object.quantity[1].value_number
                         ELSE 1,
               unit_price |-> p[1].value_number])

\* mutant: an absent quantity counts as zero
item_tuple_count_zero(item) ==
    LET p == OptOr(item.value_object.unit_price, item.value_object.total_price) IN
    IF p = NoneOpt THEN NoneOpt
    ELSE Some([name |-> item.value_object.description.value_string,
               count |-> IF item.value_object.quantity # NoneOpt
                         THEN item.value_object.quantity[1].value_number
                         ELSE 0,
               unit_price |-> p[1].value_number])

\* the closure of filter_map: None for an item without any price
item_tuple(item) ==
    LET p == OptOr(item.value_object.unit_price, item.value_object.total_price) IN
    IF p = NoneOpt THEN NoneOpt
    ELSE Some([name |-> item.value_object.description.value_string,
               count |-> IF item.value_object.quantity # NoneOpt
                         THEN item.value_object.quantity[1].value_number
                         ELSE 1,
               unit_price |-> p[1].value_number])

RECURSIVE filter_map(_)
filter_map(value_array) ==
    IF Len(value_array) = 0 THEN <<>>
    ELSE item_tuple(Head(value_array)) \o filter_map(Tail(value_array))

\* mutant: the limit is taken inclusively, one element more is kept
take_inclusive(s, n) == SubSeq(s, 1, Min(Len(s), n + 1))

take(s, n) == SubSeq(s, 1, Min(Len(s), n))

\* unzip: the three lists product_names, counts and unit_prices (441, 466)
unzip(s) ==
    [product_names |-> [i \in 1..Len(s) |-> s[i].name],
     counts |-> [i \in 1..Len(s) |-> s[i].count],
     unit_prices |-> [i \in 1..Len(s) |-> s[i].unit_price]]

\* the retained items: (name, count, unit_price) in item order, at most BIND_LIMIT
retained_items(fields) == take(filter_map(fields.items.value_array), BIND_LIMIT)

\* the characters of the merchant names and date contents of the model
Chars ==
    "Netto" :> <<"N", "e", "t", "t", "o">>
    @@ "NETTO" :> <<"N", "E", "T", "T", "O">>
    @@ "netto" :> <<"n", "e", "t", "t", "o">>
    @@ "Netto City" :> <<"N", "e", "t", "t", "o", " ", "C", "i", "t", "y">>
    @@ "Rema" :> <<"R", "e", "m", "a">>
    @@ "2024-03-05" :> <<"2", "0", "2", "4", "-", "0", "3", "-", "0", "5">>
    @@ "2024-03-06" :> <<"2", "0", "2", "4", "-", "0", "3", "-", "0", "6">>
    @@ "2024-03-31" :> <<"2", "0", "2", "4", "-", "0", "3", "-", "3", "1">>
    @@ "2024-10-27" :> <<"2", "0", "2", "4", "-", "1", "0", "-", "2", "7">>
    @@ "05-03-2024" :> <<"0", "5", "-", "0", "3", "-", "2", "0", "2", "4">>
    @@ "05.03.2024" :> <<"0", "5", ".", "0", "3", ".", "2", "0", "2", "4">>
    @@ "" :> <<>>

\* char::to_lowercase on the letters of the model
Lower(ch) ==
    CASE ch = "N" -> "n" [] ch = "E" -> "e" [] ch = "T" -> "t" [] ch = "O" -> "o"
      [] ch = "R" -> "r" [] ch = "C" -> "c" [] OTHER -> ch

\* mutant: the merchant name is compared as it is written
to_lowercase_none(str) == str

\* str::to_lowercase
to_lowercase(str) == [i \in DOMAIN str |-> Lower(str[i])]

\* str::contains(pattern)
contains(str, pattern) ==
    \E i \in 0..(Len(str) - Len(pattern)) : SubSeq(str, i + 1, i + Len(pattern)) = pattern

\* merchant_name.to_lowercase().contains("netto"), on the merchant names of the model
NettoNames ==
    {s \in DOMAIN Chars : contains(to_lowercase(Chars[s]), <<"n", "e", "t", "t", "o">>)}

\* content.contains("-"), on the date contents of the model
HyphenContents == {s \in DOMAIN Chars : contains(Chars[s], <<"-">>)}

date_str(fields) ==
    IF fields.transaction_date.content \in HyphenContents
       /\ fields.merchant_name.value_string \in NettoNames
    THEN fields.transaction_date.content
    ELSE fields.transaction_date.value_date

datetime_str(fields) == date_str(fields) \o " " \o fields.transaction_time.value_time

\* strings of the model that NaiveDateTime::parse_from_str accepts for %Y-%m-%d %H:%M:%S
ValidDates == {"2024-03-05", "2024-05-03", "2024-03-06", "2024-03-31", "2024-10-27"}

ValidTimes == {"14:30:00", "09:00:00", "02:30:00"}

parse_from_str(s) ==
    IF \E d \in ValidDates, t \in ValidTimes : s = d \o " " \o t THEN Ok(s) ELSE Err("timestamp")

\* Copenhagen.from_local_datetime: no instant in the spring gap, two in the autumn overlap
GapLocals == {"2024-03-31 02:30:00"}

OverlapLocals == {"2024-10-27 02:30:00"}

\* mutant: a local time that occurs twice resolves to its earlier instant
from_local_datetime_earliest(naive) ==
    IF naive \in GapLocals THEN Err("ambiguous")
    ELSE Ok([local |-> naive, tz |-> "Europe/Copenhagen"])

from_local_datetime(naive) ==
    IF naive \in GapLocals \cup OverlapLocals THEN Err("ambiguous")
    ELSE Ok([local |-> naive, tz |-> "Europe/Copenhagen"])

\* everything save_analysis_data computes before it touches the pool
extract(analysis_result) ==
    LET f == receipt_fields(analysis_result) IN
    IF ~f.ok THEN f
    ELSE LET ts == parse_from_str(datetime_str(f.val)) IN
         IF ~ts.ok THEN ts
         ELSE LET tz == from_local_datetime(ts.val) IN
              IF ~tz.ok THEN tz
              ELSE Ok([items |-> retained_items(f.val),
                       merchant_name |-> f.val.merchant_name.value_string,
                       paid_at |-> tz.val])

\* decode + extraction of a text; what a task holding `text` persists
Extracted(text) ==
    LET d == from_str(text) IN IF ~d.ok THEN d ELSE extract(d.val)

ItemNames(items) == {items[i].name : i \in 1..Len(items)}

-----------------------------------------------------------------------------
\* The relational schema (constraints) and the statements of main.rs 504-561.

\* UNIQUE (file_sha256) on receipts
receipts_file_sha256_key(rows, file_hash) == \A r \in rows : r.file_sha256 # file_hash

\* UNIQUE (name) on products
products_name_key(rows, name) == \A p \in rows : p.name # name

\* PRIMARY KEY (receipt_id, product_id) on prices: the rows a new row conflicts with
prices_pkey(rows, new) ==
    {r \in rows : r.receipt_id = new.receipt_id /\ r.product_id = new.product_id}

\* INSERT INTO receipts(...) VALUES ($1, $2, $3) RETURNING *  (a plain insert)
insert_receipt_plain(rows, id, merchant_name, paid_at, file_hash) ==
    Ok([rows |-> rows \cup {[id |-> id, merchant_name |-> merchant_name,
                              paid_at |-> paid_at, file_sha256 |-> file_hash]},
        id |-> id])

\* mutant: the insert goes through although the file hash is already there
insert_receipt_unchecked(rows, id, merchant_name, paid_at, file_hash) ==
    insert_receipt_plain(rows, id, merchant_name, paid_at, file_hash)

\* insert_receipt_if_not_exists: the insert, failing on the unique constraint
insert_receipt_if_not_exists(rows, id, merchant_name, paid_at, file_hash) ==
    IF receipts_file_sha256_key(rows, file_hash)
    THEN insert_receipt_plain(rows, id, merchant_name, paid_at, file_hash)
    ELSE Err("duplicate")

\* INSERT INTO products(name) SELECT UNNEST($1) ON CONFLICT DO NOTHING, row by row
RECURSIVE insert_names(_, _, _)
insert_names(rows, id, names) ==
    IF Len(names) = 0 THEN [rows |-> rows, id |-> id]
    ELSE IF products_name_key(rows, Head(names))
         THEN insert_names(rows \cup {[id |-> id, name |-> Head(names)]}, id + 1, Tail(names))
         ELSE insert_names(rows, id, Tail(names))

\* mutant: a plain INSERT, which the unique constraint fails on a name already there
insert_products_plain(rows, id, names) ==
    IF (\E i \in 1..Len(names) : ~products_name_key(rows, names[i]))
       \/ (\E i, j \in 1..Len(names) : i # j /\ names[i] = names[j])
    THEN Err("duplicate")
    ELSE Ok(insert_names(rows, id, names))

insert_products_if_not_exist(rows, id, names) == Ok(insert_names(rows, id, names))

\* mutant: keep the last occurrence of every key
unique_by_last(data) ==
    LET keep == {i \in 1..Len(data) : \A j \in (i+1)..Len(data) : data[j].name # data[i].name}
        F[i \in 0..Len(data)] ==
            IF i = 0 THEN <<>> ELSE IF i \in keep THEN Append(F[i-1], data[i]) ELSE F[i-1]
    IN F[Len(data)]

\* itertools unique_by(|(name, _)| name): keeps the first occurrence of every name
unique_by(data) ==
    LET keep == {i \in 1..Len(data) : \A j \in 1..(i-1) : data[j].name # data[i].name}
        F[i \in 0..Len(data)] ==
            IF i = 0 THEN <<>> ELSE IF i \in keep THEN Append(F[i-1], data[i]) ELSE F[i-1]
    IN F[Len(data)]

\* mutant: the join condition tmp.name = products.name is lost (a cross join)
proposed_prices_cross(prods, data, receipt_id) ==
    LET T == (1..Len(data)) \X prods IN
    [n |-> Cardinality(T),
     rows |-> {[receipt_id |-> receipt_id, product_id |-> t[2].id,
                count |-> data[t[1]].count, unit_price |-> data[t[1]].unit_price] : t \in T}]

\* the rows the INSERT ... SELECT of upsert_prices proposes: tmp INNER JOIN products
proposed_prices(prods, data, receipt_id) ==
    LET T == {<<i, p>> \in (1..Len(data)) \X prods : p.name = data[i].name} IN
    [n |-> Cardinality(T),
     rows |-> {[receipt_id |-> receipt_id, product_id |-> t[2].id,
                count |-> data[t[1]].count, unit_price |-> data[t[1]].unit_price] : t \in T}]

\* upsert_prices_for_products_and_receipt: unique_by, (sort), INSERT ... ON CONFLICT
\* ON CONSTRAINT prices_pkey DO UPDATE. The sort orders the bound arrays only; the
\* rows the statement writes do not depend on it. Postgres rejects a statement that
\* would update one row twice.
upsert_prices_for_products_and_receipt(rows, prods, items, receipt_id) ==
    LET data == unique_by(items)
        new == proposed_prices(prods, data, receipt_id)
        keys == {<<r.receipt_id, r.product_id>> : r \in new.rows}
    IN IF Cardinality(keys) # new.n THEN Err("cardinality")
       ELSE Ok({r \in rows : prices_pkey(new.rows, r) = {}} \cup new.rows)

\* show_all and download: the rows of receipts JOIN prices JOIN products, each as
\* AllData (name, unit_price, count, merchant_name, paid_at) (271-286)
AllData(receipt, price, product) ==
    [name |-> product.name, unit_price |-> price.unit_price, count |-> price.count,
     merchant_name |-> receipt.merchant_name, paid_at |-> receipt.paid_at]

show_all(receipt_rows, price_rows, product_rows) ==
    {AllData(t[1], t[2], t[3]) :
        t \in {j \in receipt_rows \X price_rows \X product_rows :
                  j[1].id = j[2].receipt_id /\ j[3].id = j[2].product_id}}

-----------------------------------------------------------------------------
\* The answer of the remote service to the POST of analyze_file (main.rs 209-225)

\* StatusCode::ACCEPTED
ACCEPTED == 202

NoAnswer == [kind |-> "none"]

\* reqwest::Error: no response at all
TransportError == [kind |-> "error"]

\* a header value: its text, and whether all its bytes are visible ASCII
HeaderValue(text, visible) == [text |-> text, visible |-> visible]

HttpResponse(status, operation_location) ==
    [kind |-> "response", status |-> status, operation_location |-> operation_location]

AnalyzeAnswers ==
    {TransportError,
     HttpResponse(202, Some(HeaderValue("url", TRUE))),
     HttpResponse(202, NoneOpt),
     HttpResponse(202, Some(HeaderValue("url", FALSE))),
     HttpResponse(200, Some(HeaderValue("url", TRUE)))}

\* HeaderValue::to_str: Err unless every byte is visible ASCII
to_str(value) == IF value.visible THEN Ok(value.text) ELSE Err("to_str")

\* mutant: the status is not compared with 202, any answer with the header is taken
result_url_any_status(a) ==
    IF a.kind = "error" THEN Err("http")
    ELSE IF a.operation_location = NoneOpt THEN Err("header")
    ELSE to_str(a.operation_location[1])

\* upload, 209-225: the poll URL, or the error upload returns
result_url(a) ==
    IF a.kind = "error" THEN Err("http")
    ELSE IF a.status # ACCEPTED THEN Err("status")
    ELSE IF a.operation_location = NoneOpt THEN Err("header")
    ELSE to_str(a.operation_location[1])

-----------------------------------------------------------------------------
\* KV store (shuttle_persist::PersistInstance)

\* persist.list(): the keys that have an entry
list(c) == {h \in Hashes : c[h] # NoEntry}

\* persist.save(key, text)
save(c, key, text) == [c EXCEPT ![key] = text]

\* mutant: only completed (non-empty) entries count as known
is_already_analyzed_complete(c, file_hash) == c[file_hash] \notin {NoEntry, EmptyText}

\* upload, main.rs 190-195: the hash is among the listed keys
is_already_analyzed(c, file_hash) == file_hash \in list(c)

-----------------------------------------------------------------------------
Init ==
    /\ cache = [h \in Hashes |-> NoEntry]
    /\ submits = [h \in Hashes |-> 0]
    /\ polls = [p \in Procs |-> 0]
    /\ receipts = {}
    /\ products = {}
    /\ prices = {}
    /\ next_receipt_id = 1
    /\ next_product_id = 1
    /\ pc = [p \in Procs |-> "idle"]
    /\ file = [p \in Procs |-> "none"]
    /\ body = [p \in Procs |-> NoEntry]
    /\ res = [p \in Procs |-> "none"]
    /\ jerr = [p \in Procs |-> "none"]
    /\ rid = [p \in Procs |-> 0]
    /\ cpc = "idle"
    /\ rpc = [r \in 1..MaxRepop |-> "idle"]
    /\ rqueue = [r \in 1..MaxRepop |-> <<>>]
    /\ answer = [u \in Uploads |-> NoAnswer]
    /\ bearer = [q \in Requests |-> NoneOpt]

-----------------------------------------------------------------------------
\* auth, the middleware layered over every route (main.rs 394-425)

\* the CLIENT_SECRET of the secret store, as the sequence of its characters
client_secret == <<"k", "e", "y">>

\* the bearer tokens a request may carry
Tokens == {client_secret, <<"k", "e", "y", "s">>, <<"k", "e">>}

\* mutant: the token is compared up to the length of the secret
auth_starts_with(token) ==
    IF Len(token) < Len(client_secret)
       \/ SubSeq(token, 1, Len(client_secret)) # client_secret
    THEN Err("forbidden")
    ELSE Ok("next")

\* Err(StatusCode::FORBIDDEN) unless the token equals the secret, else next.run
auth(token) == IF client_secret # token THEN Err("forbidden") ELSE Ok("next")

\* the request passes auth and its handler runs
Admitted(q) ==
    \E token \in Tokens :
        /\ auth(token).ok
        /\ bearer' = [bearer EXCEPT ![q] = Some(token)]

\* requests are numbered in their order of arrival
Arrived(u) == IF u[2] = 1 THEN TRUE ELSE pc[<<"up", u[2] - 1>>] # "idle"

\* runs are numbered in their order of arrival
RunArrived(r) == IF r = 1 THEN TRUE ELSE rpc[r - 1] # "idle"

\* the request is answered 403 by auth: next.run is not called
Forbidden(q, token) ==
    /\ ~auth(token).ok
    /\ bearer' = [bearer EXCEPT ![q] = Some(token)]
    /\ IF q \in Uploads
       THEN /\ pc[q] = "idle" /\ Arrived(q)
            /\ pc' = [pc EXCEPT ![q] = "done"]
            /\ res' = [res EXCEPT ![q] = auth(token).err]
            /\ UNCHANGED <<cpc, rpc>>
       ELSE /\ IF q = DeleteAll THEN cpc = "idle"
               ELSE rpc[q[2]] = "idle" /\ RunArrived(q[2])
            /\ UNCHANGED <<pc, res, cpc, rpc>>
    /\ UNCHANGED <<cache, submits, polls, dbvars, file, body, jerr, rid, rqueue, answer>>

\* a handler returns: Ok or Err to the caller, nothing spawned
Return(u, r) ==
    /\ pc' = [pc EXCEPT ![u] = "done"]
    /\ res' = [res EXCEPT ![u] = r]

\* a background task or a save_analysis_data call ends (the outcome is only logged)
Finish(p, e) ==
    /\ pc' = [pc EXCEPT ![p] = "done"]
    /\ jerr' = [jerr EXCEPT ![p] = e]
    /\ body' = [body EXCEPT ![p] = NoEntry]
    /\ rid' = [rid EXCEPT ![p] = 0]

-----------------------------------------------------------------------------
\* upload (main.rs 181-269)

\* multipart.next_field() is None
UploadNoFile(u) ==
    /\ pc[u] = "idle" /\ Arrived(u)
    /\ Admitted(u)
    /\ Return(u, "nofile")
    /\ UNCHANGED <<cache, submits, polls, dbvars, file, body, jerr, rid, cpc, rpc, rqueue, answer>>

\* mutant: the listed keys are not compared, every upload is taken as new
UploadCheckAlwaysNew(u, h) ==
    /\ pc[u] = "idle" /\ Arrived(u)
    /\ Admitted(u)
    /\ file' = [file EXCEPT ![u] = h]
    /\ \/ Return(u, "list")
       \/ /\ pc' = [pc EXCEPT ![u] = "reserve"]
          /\ UNCHANGED res
    /\ UNCHANGED <<cache, submits, polls, dbvars, body, jerr, rid, cpc, rpc, rqueue, answer>>

\* mutant: the placeholder is written before the keys are listed
UploadCheckAfterReserve(u, h) ==
    /\ pc[u] = "idle" /\ Arrived(u)
    /\ Admitted(u)
    /\ file' = [file EXCEPT ![u] = h]
    /\ cache' = save(cache, h, EmptyText)
    /\ Return(u, "known")
    /\ UNCHANGED <<submits, polls, dbvars, body, jerr, rid, cpc, rpc, rqueue, answer>>

\* the field is read and hashed, the keys are listed and compared (185-200)
UploadCheck(u, h) ==
    /\ pc[u] = "idle" /\ Arrived(u)
    /\ Admitted(u)
    /\ file' = [file EXCEPT ![u] = h]
    /\ \/ Return(u, "list")
       \/ /\ is_already_analyzed(cache, h)
          /\ Return(u, "known")
       \/ /\ ~is_already_analyzed(cache, h)
          /\ pc' = [pc EXCEPT ![u] = "reserve"]
          /\ UNCHANGED res
    /\ UNCHANGED <<cache, submits, polls, dbvars, body, jerr, rid, cpc, rpc, rqueue, answer>>

\* mutant: the placeholder is not written
UploadReserveSkip(u) ==
    /\ pc[u] = "reserve"
    /\ pc' = [pc EXCEPT ![u] = "analyze"]
    /\ UNCHANGED <<cache, res, submits, polls, dbvars, file, body, jerr, rid, cpc, rpc, rqueue, answer, bearer>>

\* mutant: reserve only if still absent (an atomic insert-if-absent)
UploadReserveIfAbsent(u) ==
    /\ pc[u] = "reserve"
    /\ \/ /\ Return(u, "save")
          /\ UNCHANGED cache
       \/ /\ is_already_analyzed(cache, file[u])
          /\ Return(u, "known")
          /\ UNCHANGED cache
       \/ /\ ~is_already_analyzed(cache, file[u])
          /\ cache' = save(cache, file[u], EmptyText)
          /\ pc' = [pc EXCEPT ![u] = "analyze"]
          /\ UNCHANGED res
    /\ UNCHANGED <<submits, polls, dbvars, file, body, jerr, rid, cpc, rpc, rqueue, answer, bearer>>

\* persist.save(&file_hash, "") (202)
UploadReserve(u) ==
    /\ pc[u] = "reserve"
    /\ \/ /\ Return(u, "save")
          /\ UNCHANGED cache
       \/ /\ cache' = save(cache, file[u], EmptyText)
          /\ pc' = [pc EXCEPT ![u] = "analyze"]
          /\ UNCHANGED res
    /\ UNCHANGED <<submits, polls, dbvars, file, body, jerr, rid, cpc, rpc, rqueue, answer, bearer>>

\* mutant: an upload whose submission is refused writes its placeholder again
UploadAnalyzeRereserve(u) ==
    /\ pc[u] = "analyze"
    /\ submits' = [submits EXCEPT ![file[u]] = @ + 1]
    /\ \E a \in AnalyzeAnswers :
          /\ answer' = [answer EXCEPT ![u] = a]
          /\ IF result_url(a).ok
             THEN /\ pc' = [pc EXCEPT ![u] = "sleep"]
                  /\ res' = [res EXCEPT ![u] = "ok"]
                  /\ UNCHANGED cache
             ELSE /\ Return(u, result_url(a).err)
                  /\ cache' = save(cache, file[u], EmptyText)
    /\ UNCHANGED <<polls, dbvars, file, body, jerr, rid, cpc, rpc, rqueue, bearer>>

\* mutant: an upload whose submission is refused takes its placeholder back
UploadAnalyzeRelease(u) ==
    /\ pc[u] = "analyze"
    /\ submits' = [submits EXCEPT ![file[u]] = @ + 1]
    /\ \E a \in AnalyzeAnswers :
          /\ answer' = [answer EXCEPT ![u] = a]
          /\ IF result_url(a).ok
             THEN /\ pc' = [pc EXCEPT ![u] = "sleep"]
                  /\ res' = [res EXCEPT ![u] = "ok"]
                  /\ UNCHANGED cache
             ELSE /\ Return(u, result_url(a).err)
                  /\ cache' = [cache EXCEPT ![file[u]] = NoEntry]
    /\ UNCHANGED <<polls, dbvars, file, body, jerr, rid, cpc, rpc, rqueue, bearer>>

\* analyze_file: the POST, and what upload does with its outcome (206-263)
UploadAnalyze(u) ==
    /\ pc[u] = "analyze"
    /\ submits' = [submits EXCEPT ![file[u]] = @ + 1]
    /\ \E a \in AnalyzeAnswers :
          /\ answer' = [answer EXCEPT ![u] = a]
          /\ IF result_url(a).ok
             THEN /\ pc' = [pc EXCEPT ![u] = "sleep"]
                  /\ res' = [res EXCEPT ![u] = "ok"]
             ELSE Return(u, result_url(a).err)
    /\ UNCHANGED <<cache, polls, dbvars, file, body, jerr, rid, cpc, rpc, rqueue, bearer>>

\* mutant: a remote job still running at the poll is polled again
JobPollUntilDone(u) ==
    /\ pc[u] = "sleep"
    /\ polls' = [polls EXCEPT ![u] = @ + 1]
    /\ \/ /\ Finish(u, "http")
       \/ /\ \E b \in PollBodies :
                IF b = RunningText
                THEN UNCHANGED <<body, pc>>
                ELSE /\ body' = [body EXCEPT ![u] = b]
                     /\ pc' = [pc EXCEPT ![u] = "process"]
          /\ UNCHANGED <<jerr, rid>>
    /\ UNCHANGED <<cache, submits, dbvars, file, res, cpc, rpc, rqueue, answer, bearer>>

\* the spawned task: sleep 30 s, then get_analysis_results (231-247)
JobPoll(u) ==
    /\ pc[u] = "sleep"
    /\ polls' = [polls EXCEPT ![u] = @ + 1]
    /\ \/ /\ Finish(u, "http")
       \/ /\ \E b \in PollBodies : body' = [body EXCEPT ![u] = b]
          /\ pc' = [pc EXCEPT ![u] = "process"]
          /\ UNCHANGED <<jerr, rid>>
    /\ UNCHANGED <<cache, submits, dbvars, file, res, cpc, rpc, rqueue, answer, bearer>>

\* mutant: the body is decoded first and stored in the cache only when it extracts
JobProcessDecodeFirst(u) ==
    /\ pc[u] = "process"
    /\ \/ /\ Finish(u, "text")
          /\ UNCHANGED cache
       \/ /\ Finish(u, "save")
          /\ UNCHANGED cache
       \/ IF Extracted(body[u]).ok
          THEN /\ cache' = save(cache, file[u], body[u])
               /\ pc' = [pc EXCEPT ![u] = "sad_receipt"]
               /\ UNCHANGED <<body, jerr, rid>>
          ELSE /\ Finish(u, Extracted(body[u]).err)
               /\ UNCHANGED cache
    /\ UNCHANGED <<submits, polls, dbvars, file, res, cpc, rpc, rqueue, answer, bearer>>

\* mutant: a task answered with a job still running waits for a result that never comes
JobProcessAwaitResult(u) ==
    /\ pc[u] = "process"
    /\ body[u] # RunningText
    /\ \/ /\ Finish(u, "text")
          /\ UNCHANGED cache
       \/ /\ Finish(u, "save")
          /\ UNCHANGED cache
       \/ /\ cache' = save(cache, file[u], body[u])
          /\ IF Extracted(body[u]).ok
             THEN /\ pc' = [pc EXCEPT ![u] = "sad_receipt"]
                  /\ UNCHANGED <<body, jerr, rid>>
             ELSE Finish(u, Extracted(body[u]).err)
    /\ UNCHANGED <<submits, polls, dbvars, file, res, cpc, rpc, rqueue, answer, bearer>>

\* mutant: the body is decoded and persisted without being stored in the cache
JobProcessNoStore(u) ==
    /\ pc[u] = "process"
    /\ \/ Finish(u, "text")
       \/ IF Extracted(body[u]).ok
          THEN /\ pc' = [pc EXCEPT ![u] = "sad_receipt"]
               /\ UNCHANGED <<body, jerr, rid>>
          ELSE Finish(u, Extracted(body[u]).err)
    /\ UNCHANGED <<cache, submits, polls, dbvars, file, res, cpc, rpc, rqueue, answer, bearer>>

\* mutant: a body that does not extract sends the job back to wait and poll again
JobProcessResubmit(u) ==
    /\ pc[u] = "process"
    /\ \/ /\ Finish(u, "text")
          /\ UNCHANGED cache
       \/ /\ Finish(u, "save")
          /\ UNCHANGED cache
       \/ /\ cache' = save(cache, file[u], body[u])
          /\ IF Extracted(body[u]).ok
             THEN /\ pc' = [pc EXCEPT ![u] = "sad_receipt"]
                  /\ UNCHANGED <<body, jerr, rid>>
             ELSE /\ pc' = [pc EXCEPT ![u] = "sleep"]
                  /\ UNCHANGED <<body, jerr, rid>>
    /\ UNCHANGED <<submits, polls, dbvars, file, res, cpc, rpc, rqueue, answer, bearer>>

\* process_analysis_results up to the first statement of save_analysis_data (114-123, 432-486)
JobProcess(u) ==
    /\ pc[u] = "process"
    /\ \/ /\ Finish(u, "text")
          /\ UNCHANGED cache
       \/ /\ Finish(u, "save")
          /\ UNCHANGED cache
       \/ /\ cache' = save(cache, file[u], body[u])
          /\ IF Extracted(body[u]).ok
             THEN /\ pc' = [pc EXCEPT ![u] = "sad_receipt"]
                  /\ UNCHANGED <<body, jerr, rid>>
             ELSE Finish(u, Extracted(body[u]).err)
    /\ UNCHANGED <<submits, polls, dbvars, file, res, cpc, rpc, rqueue, answer, bearer>>

-----------------------------------------------------------------------------
\* save_analysis_data from pool.begin() on (main.rs 488-501). The three statements
\* run on the pool, not on tx: each takes effect by itself, and tx stays empty.

NameSeq(items) == [i \in 1..Len(items) |-> items[i].name]

\* pool.begin() and insert_receipt_if_not_exists (488-492)
SadReceipt(p) ==
    /\ pc[p] = "sad_receipt"
    /\ \/ /\ Finish(p, "db")
          /\ UNCHANGED <<receipts, next_receipt_id>>
       \/ LET ex == Extracted(body[p]).val
              r == insert_receipt_if_not_exists(receipts, next_receipt_id,
                                                ex.merchant_name, ex.paid_at, file[p])
          IN IF r.ok
             THEN /\ receipts' = r.val.rows
                  /\ next_receipt_id' = next_receipt_id + 1
                  /\ rid' = [rid EXCEPT ![p] = r.val.id]
                  /\ pc' = [pc EXCEPT ![p] = "sad_products"]
                  /\ UNCHANGED <<body, jerr>>
             ELSE /\ Finish(p, r.err)
                  /\ UNCHANGED <<receipts, next_receipt_id>>
    /\ UNCHANGED <<cache, submits, polls, products, prices, next_product_id, file, res,
                   cpc, rpc, rqueue, answer, bearer>>

\* insert_products_if_not_exist (494-496)
SadProducts(p) ==
    /\ pc[p] = "sad_products"
    /\ \/ /\ Finish(p, "db")
          /\ UNCHANGED <<products, next_product_id>>
       \/ LET ex == Extracted(body[p]).val
              r == insert_products_if_not_exist(products, next_product_id, NameSeq(ex.items))
          IN IF r.ok
             THEN /\ products' = r.val.rows
                  /\ next_product_id' = r.val.id
                  /\ pc' = [pc EXCEPT ![p] = "sad_prices"]
                  /\ UNCHANGED <<body, jerr, rid>>
             ELSE /\ Finish(p, r.err)
                  /\ UNCHANGED <<products, next_product_id>>
    /\ UNCHANGED <<cache, submits, polls, receipts, prices, next_receipt_id, file, res,
                   cpc, rpc, rqueue, answer, bearer>>

\* upsert_prices_for_products_and_receipt and tx.commit() (498-501)
SadPrices(p) ==
    /\ pc[p] = "sad_prices"
    /\ \/ /\ Finish(p, "db")
          /\ UNCHANGED prices
       \/ LET ex == Extracted(body[p]).val
              r == upsert_prices_for_products_and_receipt(prices, products, ex.items, rid[p])
          IN IF r.ok
             THEN /\ prices' = r.val
                  /\ \/ Finish(p, "ok")
                     \/ Finish(p, "commit")
             ELSE /\ Finish(p, r.err)
                  /\ UNCHANGED prices
    /\ UNCHANGED <<cache, submits, polls, receipts, products, next_receipt_id,
                   next_product_id, file, res, cpc, rpc, rqueue, answer, bearer>>

-----------------------------------------------------------------------------
\* clear_db (main.rs 310-321): three DELETEs on the pool inside an empty tx

ClearPrices ==
    /\ cpc = "idle"
    /\ Admitted(DeleteAll)
    /\ prices' = {}
    /\ cpc' = "del_products"
    /\ UNCHANGED <<cache, submits, polls, receipts, products, next_receipt_id,
                   next_product_id, pc, file, body, res, jerr, rid, rpc, rqueue, answer>>

ClearProducts ==
    /\ cpc = "del_products"
    /\ \/ /\ products' = {}
          /\ cpc' = "del_receipts"
       \/ /\ cpc' = "idle"
          /\ UNCHANGED products
    /\ UNCHANGED <<cache, submits, polls, receipts, prices, next_receipt_id,
                   next_product_id, pc, file, body, res, jerr, rid, rpc, rqueue, answer, bearer>>

\* mutant: the last DELETE also empties the cache
ClearReceiptsAndCache ==
    /\ cpc = "del_receipts"
    /\ \/ /\ receipts' = {}
          /\ cache' = [h \in Hashes |-> NoEntry]
       \/ UNCHANGED <<receipts, cache>>
    /\ cpc' = "idle"
    /\ UNCHANGED <<submits, polls, products, prices, next_receipt_id,
                   next_product_id, pc, file, body, res, jerr, rid, rpc, rqueue, answer, bearer>>

ClearReceipts ==
    /\ cpc = "del_receipts"
    /\ \/ receipts' = {}
       \/ UNCHANGED receipts
    /\ cpc' = "idle"
    /\ UNCHANGED <<cache, submits, polls, products, prices, next_receipt_id,
                   next_product_id, pc, file, body, res, jerr, rid, rpc, rqueue, answer, bearer>>

-----------------------------------------------------------------------------
\* repopulate_db_from_cache (main.rs 128-179)

RepopPrices(r) ==
    /\ rpc[r] = "idle" /\ RunArrived(r)
    /\ Admitted(PutAll(r))
    /\ \/ /\ prices' = {}
          /\ rpc' = [rpc EXCEPT ![r] = "del_products"]
       \/ /\ rpc' = [rpc EXCEPT ![r] = "done"]
          /\ UNCHANGED prices
    /\ UNCHANGED <<cache, submits, polls, receipts, products, next_receipt_id,
                   next_product_id, pc, file, body, res, jerr, rid, cpc, rqueue, answer>>

RepopProducts(r) ==
    /\ rpc[r] = "del_products"
    /\ \/ /\ products' = {}
          /\ rpc' = [rpc EXCEPT ![r] = "del_receipts"]
       \/ /\ rpc' = [rpc EXCEPT ![r] = "done"]
          /\ UNCHANGED products
    /\ UNCHANGED <<cache, submits, polls, receipts, prices, next_receipt_id,
                   next_product_id, pc, file, body, res, jerr, rid, cpc, rqueue, answer, bearer>>

\* mutant: the run lists the cache without having deleted the receipts
RepopReceiptsSkipped(r) ==
    /\ rpc[r] = "del_receipts"
    /\ rpc' = [rpc EXCEPT ![r] = "list"]
    /\ UNCHANGED <<cache, submits, polls, dbvars, pc, file, body, res, jerr, rid, cpc, rqueue, answer, bearer>>

RepopReceipts(r) ==
    /\ rpc[r] = "del_receipts"
    /\ \/ /\ receipts' = {}
          /\ rpc' = [rpc EXCEPT ![r] = "list"]
       \/ /\ rpc' = [rpc EXCEPT ![r] = "done"]
          /\ UNCHANGED receipts
    /\ UNCHANGED <<cache, submits, polls, products, prices, next_receipt_id,
                   next_product_id, pc, file, body, res, jerr, rid, cpc, rqueue, answer, bearer>>

\* the sequences that hold every element of S once: the orders list() may answer in
Orders(S) == {q \in [1..Cardinality(S) -> S] : \A h \in S : \E i \in DOMAIN q : q[i] = h}

\* tx.commit(), persist.list() and the spawn of the outer task (141-144)
RepopList(r) ==
    /\ rpc[r] = "list"
    /\ \/ /\ rpc' = [rpc EXCEPT ![r] = "done"]
          /\ UNCHANGED rqueue
       \/ /\ \E q \in Orders(list(cache)) : rqueue' = [rqueue EXCEPT ![r] = q]
          /\ rpc' = [rpc EXCEPT ![r] = IF list(cache) = {} THEN "done" ELSE "spawn"]
    /\ UNCHANGED <<cache, submits, polls, dbvars, pc, file, body, res, jerr, rid, cpc, answer, bearer>>

\* mutant: the outer loop ends at the first entry whose task has failed
RepopSpawnUntilError(r) ==
    /\ rpc[r] = "spawn"
    /\ IF \E h \in Hashes : jerr[<<"re", r, h>>] \notin {"none", "ok"}
       THEN /\ rqueue' = [rqueue EXCEPT ![r] = <<>>]
            /\ rpc' = [rpc EXCEPT ![r] = "done"]
            /\ UNCHANGED <<pc, file>>
       ELSE /\ LET h == Head(rqueue[r]) IN
               /\ pc' = [pc EXCEPT ![<<"re", r, h>>] = "load"]
               /\ file' = [file EXCEPT ![<<"re", r, h>>] = h]
            /\ rqueue' = [rqueue EXCEPT ![r] = Tail(@)]
            /\ rpc' = [rpc EXCEPT ![r] = IF Len(rqueue[r]) = 1 THEN "done" ELSE "spawn"]
    /\ UNCHANGED <<cache, submits, polls, dbvars, body, res, jerr, rid, cpc, answer, bearer>>

\* one turn of the outer loop: sleep 1 s, spawn the task of the next file_hash (145-148)
RepopSpawn(r) ==
    /\ rpc[r] = "spawn"
    /\ LET h == Head(rqueue[r]) IN
       /\ pc' = [pc EXCEPT ![<<"re", r, h>>] = "load"]
       /\ file' = [file EXCEPT ![<<"re", r, h>>] = h]
    /\ rqueue' = [rqueue EXCEPT ![r] = Tail(@)]
    /\ rpc' = [rpc EXCEPT ![r] = IF Len(rqueue[r]) = 1 THEN "done" ELSE "spawn"]
    /\ UNCHANGED <<cache, submits, polls, dbvars, body, res, jerr, rid, cpc, answer, bearer>>

\* mutant: the task persists the cached response without its line items
RepopLoadNoItems(t) ==
    /\ pc[t] = "load"
    /\ \/ Finish(t, "load")
       \/ IF Extracted(cache[file[t]]).ok
          THEN /\ body' = [body EXCEPT ![t] = [cache[file[t]] EXCEPT !.docs[1].Items = <<>>]]
               /\ pc' = [pc EXCEPT ![t] = "sad_receipt"]
               /\ UNCHANGED <<jerr, rid>>
          ELSE Finish(t, Extracted(cache[file[t]]).err)
    /\ UNCHANGED <<cache, submits, polls, dbvars, file, res, cpc, rpc, rqueue, answer, bearer>>

\* mutant: an entry that does not extract is dropped from the cache
RepopLoadEvict(t) ==
    /\ pc[t] = "load"
    /\ \/ /\ Finish(t, "load")
          /\ UNCHANGED cache
       \/ IF Extracted(cache[file[t]]).ok
          THEN /\ body' = [body EXCEPT ![t] = cache[file[t]]]
               /\ pc' = [pc EXCEPT ![t] = "sad_receipt"]
               /\ UNCHANGED <<jerr, rid, cache>>
          ELSE /\ Finish(t, Extracted(cache[file[t]]).err)
               /\ cache' = [cache EXCEPT ![file[t]] = NoEntry]
    /\ UNCHANGED <<submits, polls, dbvars, file, res, cpc, rpc, rqueue, answer, bearer>>

\* the inner task: persist.load, from_str, and save_analysis_data up to its first
\* statement (149-157, 432-486)
RepopLoad(t) ==
    /\ pc[t] = "load"
    /\ \/ Finish(t, "load")
       \/ IF Extracted(cache[file[t]]).ok
          THEN /\ body' = [body EXCEPT ![t] = cache[file[t]]]
               /\ pc' = [pc EXCEPT ![t] = "sad_receipt"]
               /\ UNCHANGED <<jerr, rid>>
          ELSE Finish(t, Extracted(cache[file[t]]).err)
    /\ UNCHANGED <<cache, submits, polls, dbvars, file, res, cpc, rpc, rqueue, answer, bearer>>

-----------------------------------------------------------------------------
\* A direct call of save_analysis_data(pool, data, file_hash): the persistence layer
\* by itself, on the documents below.

ItemsC == <<JsonItem("bag", Some(1), Some(4), NoneOpt),
            JsonItem("milk", NoneOpt, Some(8), NoneOpt),
            JsonItem("bag", Some(5), NoneOpt, Some(6))>>

DocC == JsonText(TRUE, TRUE,
                 <<JsonReceipt(ItemsC, "Netto City", "2024-03-06", "2024-06-03", "09:00:00")>>)

CallDocs == {DocA, DocB, DocC}

CallStart(c, h, text) ==
    /\ pc[c] = "idle"
    /\ IF c[2] = 1 THEN TRUE ELSE pc[<<"db", c[2] - 1>>] # "idle"
    /\ Extracted(text).ok
    /\ pc' = [pc EXCEPT ![c] = "sad_receipt"]
    /\ file' = [file EXCEPT ![c] = h]
    /\ body' = [body EXCEPT ![c] = text]
    /\ UNCHANGED <<cache, submits, polls, dbvars, res, jerr, rid, cpc, rpc, rqueue, answer, bearer>>

-----------------------------------------------------------------------------
\* save_analysis_data(pool, data, file_hash) on any decoded analysis result: the
\* extraction (main.rs 432-486) and, when it succeeds, the statements that follow.

\* the same receipt as DocA, the merchant name in capitals
DocUpper == JsonText(TRUE, TRUE,
                     <<JsonReceipt(ItemsA, "NETTO", "2024-03-05", "2024-05-03", "14:30:00")>>)

\* a Netto receipt whose date content has no hyphen
DocDots == JsonText(TRUE, TRUE,
                    <<JsonReceipt(ItemsB, "Netto", "05.03.2024", "2024-03-05", "14:30:00")>>)

\* a receipt of another merchant whose date content has hyphens
DocRemaHyphen == JsonText(TRUE, TRUE,
                    <<JsonReceipt(ItemsB, "Rema", "2024-03-05", "2024-05-03", "09:00:00")>>)

\* a Netto receipt whose date content is day-month-year
DocDayFirst == JsonText(TRUE, TRUE,
                    <<JsonReceipt(ItemsB, "Netto", "05-03-2024", "2024-03-05", "09:00:00")>>)

\* a time without seconds
DocShortTime == JsonText(TRUE, TRUE,
                    <<JsonReceipt(ItemsB, "Rema", "05.03.2024", "2024-03-05", "14:30")>>)

\* 02:30 on the night the clocks go forward, and on the night they go back
DocGap == JsonText(TRUE, TRUE,
                   <<JsonReceipt(ItemsB, "Rema", "2024-03-31", "2024-03-31", "02:30:00")>>)

DocOverlap == JsonText(TRUE, TRUE,
                   <<JsonReceipt(ItemsB, "Netto", "2024-10-27", "2024-10-27", "02:30:00")>>)

\* analyzeResult without documents, and with an empty documents list
NoDocuments == JsonText(TRUE, FALSE, <<>>)

EmptyDocuments == JsonText(TRUE, TRUE, <<>>)

ExtractDocs ==
    {DocA, DocB, DocC, DocUpper, DocDots, DocRemaHyphen, DocDayFirst, DocShortTime,
     DocGap, DocOverlap, RunningText, NoDocuments, EmptyDocuments}

\* a call of save_analysis_data with the decoded text: up to the first statement, or
\* to the error extraction returns
CallExtract(c, h, text) ==
    /\ pc[c] = "idle"
    /\ IF c[2] = 1 THEN TRUE ELSE pc[<<"db", c[2] - 1>>] # "idle"
    /\ from_str(text).ok
    /\ file' = [file EXCEPT ![c] = h]
    /\ body' = [body EXCEPT ![c] = text]
    /\ IF extract(from_str(text).val).ok
       THEN /\ pc' = [pc EXCEPT ![c] = "sad_receipt"]
            /\ UNCHANGED jerr
       ELSE /\ pc' = [pc EXCEPT ![c] = "done"]
            /\ jerr' = [jerr EXCEPT ![c] = extract(from_str(text).val).err]
    /\ UNCHANGED <<cache, submits, polls, dbvars, res, rid, cpc, rpc, rqueue, answer, bearer>>

-----------------------------------------------------------------------------
\* Decoding by itself (main.rs 122; the tests at 567-583 call it on recorded bodies)

ReceiptA == JsonReceipt(ItemsA, "Netto", "2024-03-05", "2024-05-03", "14:30:00")

\* analysis results whose first document has any subset of the seven receipt fields
PartialDocs == {JsonText(TRUE, TRUE, <<Restrict(ReceiptA, K)>>) : K \in SUBSET ReceiptKeys}

DecodeTexts == PartialDocs \cup {BadText, RunningText, DocB}

\* serde_json::from_str::<manual::AnalyzeResultOperation>(text).unwrap()
parse_receipt_analysis_results(c, text) ==
    /\ pc[c] = "idle"
    /\ IF c[2] = 1 THEN TRUE ELSE pc[<<"db", c[2] - 1>>] # "idle"
    /\ body' = [body EXCEPT ![c] = text]
    /\ pc' = [pc EXCEPT ![c] = "done"]
    /\ res' = [res EXCEPT ![c] = "decoded"]
    /\ jerr' = [jerr EXCEPT ![c] = IF from_str(text).ok THEN "ok" ELSE from_str(text).err]
    /\ UNCHANGED <<cache, submits, polls, dbvars, file, rid, cpc, rpc, rqueue, answer, bearer>>

-----------------------------------------------------------------------------
\* Next-state relations

\* the upload handler past its dedup check, and the task it spawns
Pipeline ==
    \/ \E u \in Uploads : UploadNoFile(u)
    \/ \E u \in Uploads : UploadReserve(u)
    \/ \E u \in Uploads : UploadAnalyze(u)
    \/ \E u \in Uploads : JobPoll(u)
    \/ \E u \in Uploads : JobProcess(u)

\* the statements of save_analysis_data, by whichever task runs it
Persist ==
    \/ \E p \in Procs : SadReceipt(p)
    \/ \E p \in Procs : SadProducts(p)
    \/ \E p \in Procs : SadPrices(p)

Clear ==
    \/ ClearPrices
    \/ ClearProducts
    \/ ClearReceipts

Repopulate ==
    \/ \E r \in 1..MaxRepop : RepopPrices(r)
    \/ \E r \in 1..MaxRepop : RepopProducts(r)
    \/ \E r \in 1..MaxRepop : RepopReceipts(r)
    \/ \E r \in 1..MaxRepop : RepopList(r)
    \/ \E r \in 1..MaxRepop : RepopSpawn(r)
    \/ \E t \in RTasks : RepopLoad(t)

\* no other upload of the same bytes is inside its handler
NoOverlap(u, h) ==
    \A v \in Uploads \ {u} : file[v] = h => pc[v] \notin {"reserve", "analyze"}

\* the files uploaded while repopulations run
RepopFiles == {"h1"}

\* uploads of any files, their jobs, and clear_db
Next ==
    \/ \E u \in Uploads, h \in Hashes : UploadCheck(u, h)
    \/ Pipeline
    \/ Persist
    \/ Clear

Spec == Init /\ [][Next]_vars

\* Uploads, their jobs and clear_db, where every spawned task is scheduled and the
\* remote service, the cache and the database answer each request of a task: the
\* sleep of 30 s ends (233), the GET returns Ok or Err (235-240), and each await of
\* process_analysis_results and save_analysis_data returns (119-123, 488-500).
JobsProgress ==
    \A u \in Uploads :
        /\ WF_vars(JobPoll(u))
        /\ WF_vars(JobProcess(u))
        /\ WF_vars(SadReceipt(u))
        /\ WF_vars(SadProducts(u))
        /\ WF_vars(SadPrices(u))

SpecFair == Init /\ [][Next]_vars /\ JobsProgress

\* the whole service: uploads, their jobs, clear_db and repopulate_db_from_cache
NextRepop ==
    \/ \E u \in Uploads, h \in RepopFiles : UploadCheck(u, h)
    \/ Pipeline
    \/ Persist
    \/ Clear
    \/ Repopulate

SpecRepop == Init /\ [][NextRepop]_vars

\* One replay of the cache: uploads and their jobs run first; clear_db is called once,
\* when no upload is in its handler and no job is in flight; repopulations are called
\* after clear_db has returned.
Quiet == \A u \in Uploads : pc[u] \in {"idle", "done"}

Cleared == bearer[DeleteAll] # NoneOpt

NextReplay ==
    \/ \E u \in Uploads, h \in Hashes : ~Cleared /\ UploadCheck(u, h)
    \/ \E u \in Uploads : ~Cleared /\ UploadNoFile(u)
    \/ \E u \in Uploads : UploadReserve(u)
    \/ \E u \in Uploads : UploadAnalyze(u)
    \/ \E u \in Uploads : JobPoll(u)
    \/ \E u \in Uploads : JobProcess(u)
    \/ Persist
    \/ Quiet /\ ~Cleared /\ ClearPrices
    \/ ClearProducts
    \/ ClearReceipts
    \/ \E r \in 1..MaxRepop : Cleared /\ cpc = "idle" /\ RepopPrices(r)
    \/ \E r \in 1..MaxRepop : RepopProducts(r)
    \/ \E r \in 1..MaxRepop : RepopReceipts(r)
    \/ \E r \in 1..MaxRepop : RepopList(r)
    \/ \E r \in 1..MaxRepop : RepopSpawn(r)
    \/ \E t \in RTasks : RepopLoad(t)

SpecReplay == Init /\ [][NextReplay]_vars

\* the whole service, in the runs where uploads of identical bytes never overlap
NextSeq ==
    \/ \E u \in Uploads, h \in RepopFiles : NoOverlap(u, h) /\ UploadCheck(u, h)
    \/ Pipeline
    \/ Persist
    \/ Clear
    \/ Repopulate

SpecSeq == Init /\ [][NextSeq]_vars

\* the same runs, with requests of any token on the three routes
NextAuth ==
    \/ NextSeq
    \/ \E q \in Requests, token \in Tokens : Forbidden(q, token)

SpecAuth == Init /\ [][NextAuth]_vars

\* concurrent save_analysis_data calls and clear_db
NextDb ==
    \/ \E c \in Calls, h \in Hashes, text \in CallDocs : CallStart(c, h, text)
    \/ Persist
    \/ Clear

SpecDb == Init /\ [][NextDb]_vars

\* save_analysis_data calls on every kind of analysis result
NextExtract ==
    \/ \E c \in Calls, h \in Hashes, text \in ExtractDocs : CallExtract(c, h, text)
    \/ Persist

SpecExtract == Init /\ [][NextExtract]_vars

\* decoding of analysis results with fields present or absent
NextDecode ==
    \E c \in Calls, text \in DecodeTexts : parse_receipt_analysis_results(c, text)

SpecDecode == Init /\ [][NextDecode]_vars

\* A repopulation run by itself, on a cache that earlier uploads have filled.

\* the texts upload and its job leave in the cache
CacheTexts == {NoEntry, EmptyText} \cup PollBodies

\* the rows an earlier job persisted for the file "h1" analysed as DocA
StaleReceipts ==
    insert_receipt_plain({}, 1, Extracted(DocA).val.merchant_name,
                         Extracted(DocA).val.paid_at, "h1").val.rows

StaleProducts == insert_names({}, 1, NameSeq(Extracted(DocA).val.items)).rows

StalePrices ==
    upsert_prices_for_products_and_receipt({}, StaleProducts, Extracted(DocA).val.items, 1).val

\* the service at rest: any cache, the tables empty or holding the rows of "h1"
InitRun ==
    /\ cache \in [Hashes -> CacheTexts]
    /\ submits = [h \in Hashes |-> 0]
    /\ polls = [p \in Procs |-> 0]
    /\ \/ /\ receipts = {} /\ products = {} /\ prices = {}
          /\ next_receipt_id = 1 /\ next_product_id = 1
       \/ /\ cache["h1"] = DocA
          /\ receipts = StaleReceipts /\ products = StaleProducts /\ prices = StalePrices
          /\ next_receipt_id = 2
          /\ next_product_id = insert_names({}, 1, NameSeq(Extracted(DocA).val.items)).id
    /\ pc = [p \in Procs |-> "idle"]
    /\ file = [p \in Procs |-> "none"]
    /\ body = [p \in Procs |-> NoEntry]
    /\ res = [p \in Procs |-> "none"]
    /\ jerr = [p \in Procs |-> "none"]
    /\ rid = [p \in Procs |-> 0]
    /\ cpc = "idle"
    /\ rpc = [r \in 1..MaxRepop |-> "idle"]
    /\ rqueue = [r \in 1..MaxRepop |-> <<>>]
    /\ answer = [u \in Uploads |-> NoAnswer]
    /\ bearer = [q \in Requests |-> NoneOpt]

NextRun ==
    \/ Repopulate
    \/ Persist

SpecRun == InitRun /\ [][NextRun]_vars

-----------------------------------------------------------------------------
\* Properties

\* the upload issued its POST
Posted(u) == res[u] \in {"ok", "http", "status", "header", "to_str"}

\* the upload wrote its placeholder
Reserved(u) == pc[u] = "analyze" \/ Posted(u)

\* the job of the upload stored a response body in the cache
Stored(u) ==
    \/ pc[u] \in {"sad_receipt", "sad_products", "sad_prices"}
    \/ pc[u] = "done" /\ jerr[u] \notin {"none", "http", "text", "save"}

\* the handler or the job of the upload has not ended
InFlight(u) == pc[u] \in {"reserve", "analyze", "sleep", "process",
                          "sad_receipt", "sad_products", "sad_prices"}

\* C1: an upload whose hash has any cache entry (placeholder or payload) returns an
\* error in the step that checks it, that step changes neither the cache nor the
\* requests the remote service has received, and a rejected upload never moves again:
\* it polls nothing and runs no task.
C1_KnownUploadRejected ==
    [][\A u \in Uploads :
          /\ (pc[u] = "idle" /\ pc'[u] # "idle" /\ file'[u] \in Hashes
              /\ cache[file'[u]] # NoEntry)
             => /\ pc'[u] = "done" /\ res'[u] \in {"known", "list"}
                /\ cache' = cache /\ submits' = submits /\ polls' = polls
          /\ res[u] = "known"
             => /\ pc'[u] = "done" /\ res'[u] = "known"
                /\ polls'[u] = 0 /\ jerr'[u] = "none"]_vars

\* C1 witness: an upload was rejected while the entry of its hash is the placeholder
\* of an earlier upload whose job has not polled yet
C1_Witness ==
    \E u, v \in Uploads :
        /\ res[u] = "known" /\ file[v] = file[u]
        /\ pc[v] = "sleep" /\ cache[file[v]] = EmptyText

\* C2: when uploads of identical bytes never overlap, every hash is submitted at most
\* once, by exactly one upload, whatever uploads, polls, clears and repopulations
\* follow; every other upload of that hash has issued no POST.
C2_SubmittedOnce ==
    \A h \in Hashes :
        /\ submits[h] <= 1
        /\ submits[h] = Cardinality({u \in Uploads : file[u] = h /\ Posted(u)})
        /\ \A u \in Uploads : (file[u] = h /\ res[u] = "known") => submits[h] = 1

\* C2 witness: one submission, its job done and persisted, a later upload of the same
\* bytes rejected, and a repopulation run over
C2_Witness ==
    \E u, v \in Uploads :
        /\ file[u] \in Hashes /\ file[u] = file[v] /\ submits[file[u]] = 1
        /\ jerr[u] = "ok" /\ res[v] = "known"
        /\ rpc[1] = "done" /\ rqueue[1] = <<>>
        /\ \E t \in RTasks : pc[t] = "done"

\* C3 as stated: a non-empty entry means the file is fully processed (a job of that
\* hash ended with its receipt data persisted), an empty entry means a submission of
\* that hash is still in flight.
C3_EntryMeansProcessedOrInFlight ==
    \A h \in Hashes :
        /\ cache[h] \notin {NoEntry, EmptyText}
           => \E u \in Uploads : file[u] = h /\ pc[u] = "done" /\ jerr[u] = "ok"
        /\ cache[h] = EmptyText
           => \E u \in Uploads : file[u] = h /\ InFlight(u)

\* C3 amended: a non-empty entry is a response body that a job of that hash fetched
\* and stored (its receipt data may be not yet, or never, persisted); an empty entry
\* means an upload of that hash passed the check and reserved it (its submission may
\* be in flight, rejected by the remote service, or its job may have ended).
C3_EntryMeansStoredOrReserved ==
    \A h \in Hashes :
        /\ cache[h] \notin {NoEntry, EmptyText}
           => /\ cache[h] \in PollBodies
              /\ \E u \in Uploads : file[u] = h /\ polls[u] = 1 /\ Stored(u)
        /\ cache[h] = EmptyText
           => \E u \in Uploads : file[u] = h /\ Reserved(u)
        /\ cache[h] = NoEntry
           => \A u \in Uploads : file[u] = h => ~Reserved(u)

\* C3 witness: a payload whose persistence failed, beside a placeholder whose
\* submission the remote service rejected
C3_Witness ==
    \E u, v \in Uploads :
        /\ file[u] \in Hashes /\ file[v] \in Hashes
        /\ cache[file[u]] = DocA /\ pc[u] = "done" /\ jerr[u] = "db"
        /\ cache[file[v]] = EmptyText /\ pc[v] = "done" /\ res[v] = "status"

\* C9: the check and the reservation are two steps, and an upload that passed the
\* check is not checked again: unless the cache write fails it reserves and then
\* POSTs, whatever entry the cache holds by then; so two uploads of identical bytes
\* that both passed the check both submit.
C9_PassedCheckSubmits ==
    [][\A u \in Uploads :
          /\ (pc[u] = "reserve" /\ pc'[u] # "reserve")
             => \/ pc'[u] = "done" /\ res'[u] = "save" /\ cache' = cache
                \/ pc'[u] = "analyze" /\ cache'[file[u]] = EmptyText
          /\ (pc[u] = "analyze" /\ pc'[u] # "analyze")
             => submits'[file[u]] = submits[file[u]] + 1]_vars

\* C9 witness: two uploads of one hash were both past the check, and the remote
\* service has received two submissions of that hash
C9_Witness ==
    \E u, v \in Uploads :
        /\ u # v /\ file[u] = file[v]
        /\ Posted(u) /\ Posted(v)
        /\ submits[file[u]] = 2

\* C10: a POST to the analyze endpoint is issued only by an upload that has written
\* its placeholder: in the state the POST leaves from, the hash has a cache entry.
C10_ReserveBeforePost ==
    [][\A h \in Hashes :
          submits'[h] # submits[h]
          => /\ cache[h] # NoEntry
             /\ \E u \in Uploads : /\ file[u] = h /\ pc[u] = "analyze"
                                   /\ pc'[u] \in {"sleep", "done"}]_vars

\* C10 witness: an accepted upload, its placeholder in the cache, its job waiting
C10_Witness ==
    \E u \in Uploads : res[u] = "ok" /\ pc[u] = "sleep" /\ cache[file[u]] = EmptyText

-----------------------------------------------------------------------------
\* Properties of the persistence layer

\* the retained items of the document a task is persisting
ItemsOf(p) == Extracted(body[p]).val.items

Names(rows) == {r.name : r \in rows}

Occurrences(items, n) == {i \in 1..Len(items) : items[i].name = n}

Repeated(items) == {n \in ItemNames(items) : Cardinality(Occurrences(items, n)) >= 2}

FirstOf(items, n) ==
    items[CHOOSE i \in Occurrences(items, n) : \A j \in Occurrences(items, n) : i <= j]

LastOf(items, n) ==
    items[CHOOSE i \in Occurrences(items, n) : \A j \in Occurrences(items, n) : j <= i]

\* the price rows of one receipt
PricesOf(rows, receipt_id) == {r \in rows : r.receipt_id = receipt_id}

\* save_analysis_data returns Ok in this step
PersistOk(p) == pc[p] = "sad_prices" /\ pc'[p] = "done" /\ jerr'[p] = "ok"

\* save_analysis_data returns Err in this step
PersistErr(p) ==
    /\ pc[p] \in {"sad_receipt", "sad_products", "sad_prices"}
    /\ pc'[p] = "done" /\ jerr'[p] # "ok"

\* C4: save_analysis_data is atomic: when any of its steps fails, no receipt row and
\* no price row of the call is left in the tables.
C4_PersistAtomic ==
    [][\A p \in Procs :
          PersistErr(p) => /\ \A r \in receipts' : r.id # rid[p]
                           /\ PricesOf(prices', rid[p]) = {}]_vars

\* C5: there is at most one receipt row per file hash, and a persist whose file hash
\* already has a receipt row fails on the insert (DuplicateReceipt, or the connection)
\* and leaves the receipts table as it was.
C5_OneReceiptPerHash ==
    /\ [](\A r1, r2 \in receipts : r1.file_sha256 = r2.file_sha256 => r1 = r2)
    /\ [][\A p \in Procs :
             (pc[p] = "sad_receipt" /\ pc'[p] # "sad_receipt"
              /\ \E r \in receipts : r.file_sha256 = file[p])
             => /\ pc'[p] = "done" /\ jerr'[p] \in {"duplicate", "db"}
                /\ receipts' = receipts]_vars

\* C5 witness: a repopulation task failed with DuplicateReceipt on the hash whose
\* receipt row the job of an upload had inserted
C5_Witness ==
    \E t \in RTasks, u \in Uploads, r \in receipts :
        /\ jerr[t] = "duplicate" /\ file[t] = file[u]
        /\ r.file_sha256 = file[t] /\ jerr[u] = "ok"

\* C6 as stated: for a product name that the retained items repeat, the one price row
\* of (receipt, product) carries the count and unit price of the LAST such item.
C6_LastItemWins ==
    [][\A p \in Procs :
          PersistOk(p)
          => \A n \in Repeated(ItemsOf(p)) : \A pd \in products :
                pd.name = n
                => \A r \in PricesOf(prices', rid[p]) :
                      r.product_id = pd.id
                      => /\ r.count = LastOf(ItemsOf(p), n).count
                         /\ r.unit_price = LastOf(ItemsOf(p), n).unit_price]_vars

\* C6 amended: for a product name that the retained items repeat, the one price row
\* of (receipt, product) carries the count and unit price of the FIRST such item.
C6_FirstItemWins ==
    [][\A p \in Procs :
          PersistOk(p)
          => \A n \in Repeated(ItemsOf(p)) : \A pd \in products :
                pd.name = n
                => \E r \in PricesOf(prices', rid[p]) :
                      /\ r.product_id = pd.id
                      /\ r.count = FirstOf(ItemsOf(p), n).count
                      /\ r.unit_price = FirstOf(ItemsOf(p), n).unit_price
                      /\ \A r2 \in PricesOf(prices', rid[p]) :
                            r2.product_id = pd.id => r2 = r]_vars

\* C6 witness: the receipt of DocA, whose items name "milk" twice, (2, 10) then
\* (1, 30), is persisted with its price row for "milk"
C6_Witness ==
    \E r \in receipts, pr \in prices, pd \in products, p \in Procs :
        /\ jerr[p] = "ok" /\ r.file_sha256 = file[p] /\ r.merchant_name = "Netto"
        /\ pr.receipt_id = r.id /\ pr.product_id = pd.id /\ pd.name = "milk"
        /\ pr.count = 2 /\ pr.unit_price = 10

\* PRIMARY KEY (receipt_id, product_id) holds of a table
OneRowPerPair(rows) ==
    \A r1, r2 \in rows :
        (r1.receipt_id = r2.receipt_id /\ r1.product_id = r2.product_id) => r1 = r2

\* C7 as stated: at most one price row per (receipt, product) pair, and after a
\* successful persist the receipt has exactly one price row for each distinct product
\* name among its retained items.
C7_OnePricePerName ==
    /\ []OneRowPerPair(prices)
    /\ [][\A p \in Procs :
             PersistOk(p)
             => /\ Cardinality(PricesOf(prices', rid[p]))
                      = Cardinality(ItemNames(ItemsOf(p)))
                /\ \A n \in ItemNames(ItemsOf(p)) :
                      \E pd \in products', r \in PricesOf(prices', rid[p]) :
                         pd.name = n /\ r.product_id = pd.id]_vars

\* C7 amended: at most one price row per (receipt, product) pair, and after a
\* successful persist the receipt has exactly one price row for each distinct product
\* name among its retained items that is in products when the price statement runs
\* (all of them, unless clear_db or a repopulation deleted products in between), and
\* none for any other product.
C7_OnePricePerJoinedName ==
    /\ []OneRowPerPair(prices)
    /\ [][\A p \in Procs :
             PersistOk(p)
             => LET joined == {pd \in products : pd.name \in ItemNames(ItemsOf(p))} IN
                /\ {r.product_id : r \in PricesOf(prices', rid[p])}
                      = {pd.id : pd \in joined}
                /\ Cardinality(PricesOf(prices', rid[p])) = Cardinality(joined)
                /\ (Names(products) \cap ItemNames(ItemsOf(p)) = ItemNames(ItemsOf(p))
                    => Cardinality(PricesOf(prices', rid[p]))
                          = Cardinality(ItemNames(ItemsOf(p))))]_vars

\* C7 witness: the receipt of DocB ("bread", "milk") persisted with two price rows
\* while another receipt holds a price row for "milk" as well
C7_Witness ==
    \E r \in receipts, p \in Procs :
        /\ jerr[p] = "ok" /\ r.file_sha256 = file[p] /\ r.merchant_name = "Rema"
        /\ Cardinality(PricesOf(prices, r.id)) = 2
        /\ \E r2 \in receipts : r2 # r /\ PricesOf(prices, r2.id) # {}

\* C8: no two product rows share a name; the product statement of a persist fails
\* only on the connection, and otherwise adds one row for each distinct item name
\* not yet present and leaves the rows already present as they are, also when the
\* item list repeats a name.
C8_ProductsByName ==
    /\ [](\A p1, p2 \in products : p1.name = p2.name => p1 = p2)
    /\ [][\A p \in Procs :
             (pc[p] = "sad_products" /\ pc'[p] # "sad_products")
             => \/ pc'[p] = "done" /\ jerr'[p] = "db" /\ products' = products
                \/ /\ pc'[p] = "sad_prices"
                   /\ products \subseteq products'
                   /\ Names(products') = Names(products) \cup ItemNames(ItemsOf(p))
                   /\ Cardinality(products')
                         = Cardinality(Names(products) \cup ItemNames(ItemsOf(p)))]_vars

\* C8 witness: the products of DocA, whose items repeat "milk", were inserted after
\* "milk" and "bread" were already present
C8_Witness ==
    \E p, q \in Procs :
        /\ pc[p] = "sad_prices" /\ body[p] = DocA
        /\ jerr[q] = "ok" /\ Names(products) = {"bread", "milk"}

-----------------------------------------------------------------------------
\* Properties of the job of an accepted upload

\* the task is spawned and sleeps: the poll is still to come
Submitted(u) == pc[u] = "sleep"

\* the poll is answered: the task processes the body or persists the receipt
Polled(u) == pc[u] \in {"process", "sad_receipt", "sad_products", "sad_prices"}

Completed(u) == res[u] = "ok" /\ pc[u] = "done" /\ jerr[u] = "ok"

Failed(u) == res[u] = "ok" /\ pc[u] = "done" /\ jerr[u] \notin {"ok", "none"}

\* C11: every job is Submitted, then Polled, then exactly one of Completed or Failed.
\* A job becomes Submitted only out of the upload handler; it leaves Submitted by its
\* poll, to Polled, or to Failed when the GET itself fails; from Polled it goes on to
\* Completed or Failed and never back to Submitted; a Completed or Failed job takes
\* no further step.
C11_JobLifecycle ==
    [][\A u \in Uploads :
          /\ Submitted(u)' => (pc[u] = "analyze" \/ Submitted(u))
          /\ (Submitted(u) /\ ~Submitted(u)') =>
                 /\ polls'[u] = polls[u] + 1
                 /\ Polled(u)' \/ Failed(u)'
          /\ Polled(u) => (Polled(u)' \/ Completed(u)' \/ Failed(u)')
          /\ ~(Completed(u)' /\ Failed(u)')
          /\ (Completed(u) \/ Failed(u)) =>
                 /\ pc'[u] = pc[u] /\ jerr'[u] = jerr[u] /\ res'[u] = res[u]
                 /\ polls'[u] = polls[u] /\ body'[u] = body[u]
      ]_vars

\* C11 witness: one job Completed, and another Failed because the remote job was
\* still running at its poll
C11_Witness ==
    \E u, v \in Uploads :
        /\ Completed(u) /\ polls[u] = 1
        /\ Failed(v) /\ jerr[v] = "missing" /\ cache[file[v]] = RunningText

\* C12: a job issues one poll GET over its life and nothing is retried: a job still
\* Submitted has issued none, a job past Submitted exactly one (also when the remote
\* job was still running at that poll, and whatever failed afterwards), and no other
\* process polls; the poll is the step that leaves Submitted; an upload never returns
\* to its submission, and every POST received is the one POST of an upload that was
\* about to submit.
C12_OnePollNoRetry ==
    /\ [](\A p \in Procs :
              polls[p] = IF p \in Uploads /\ res[p] = "ok" /\ ~Submitted(p) THEN 1 ELSE 0)
    /\ [][/\ \A u \in Uploads :
                /\ polls'[u] # polls[u] => (Submitted(u) /\ ~Submitted(u)')
                /\ pc'[u] = "analyze" => pc[u] \in {"reserve", "analyze"}
          /\ \A h \in Hashes :
                submits'[h] # submits[h] =>
                    /\ submits'[h] = submits[h] + 1
                    /\ \E u \in Uploads :
                           file[u] = h /\ pc[u] = "analyze" /\ pc'[u] # "analyze"
       ]_vars

\* C12 witness: a job whose one poll found the remote job still running has ended,
\* and the remote service has received one POST of its file and one GET from it
C12_Witness ==
    \E u \in Uploads :
        /\ Failed(u) /\ jerr[u] = "missing"
        /\ file[u] \in Hashes /\ cache[file[u]] = RunningText
        /\ polls[u] = 1 /\ submits[file[u]] = 1

\* the upload has a background task (spawned, running or ended)
HasTask(u) == Submitted(u) \/ Polled(u) \/ Completed(u) \/ Failed(u)

\* upload returned an error after its POST and spawned nothing
RefusedAfterPost(u) ==
    /\ res[u] \in {"http", "status", "header", "to_str"}
    /\ pc[u] = "done" /\ polls[u] = 0 /\ jerr[u] = "none"

\* the remote service answered 202 with an Operation-Location header
Accepted202WithHeader(a) ==
    a.kind = "response" /\ a.status = 202 /\ a.operation_location # NoneOpt

\* C13 as stated: upload spawns the poll task and returns the poll URL if and only if
\* the submission was answered with HTTP 202 carrying an Operation-Location header;
\* otherwise it returns an error and no task is spawned for that upload.
C13_SpawnIffAcceptedWithHeader ==
    \A u \in Uploads :
        IF answer[u] = NoAnswer THEN ~HasTask(u) /\ polls[u] = 0
        ELSE IF Accepted202WithHeader(answer[u]) THEN res[u] = "ok" /\ HasTask(u)
        ELSE RefusedAfterPost(u)

\* C13 amended: upload spawns the poll task and returns the poll URL if and only if
\* the submission was answered with HTTP 202 carrying an Operation-Location header
\* whose value is visible ASCII text (HeaderValue::to_str succeeds); for a transport
\* failure, any other status, a 202 without the header or with a header value that is
\* not such text, upload returns an error and no task is ever spawned for that upload.
C13_SpawnIffAcceptedWithTextHeader ==
    /\ [](\A u \in Uploads :
              IF answer[u] = NoAnswer THEN ~HasTask(u) /\ polls[u] = 0
              ELSE IF Accepted202WithHeader(answer[u])
                      /\ answer[u].operation_location[1].visible
                   THEN res[u] = "ok" /\ HasTask(u)
                   ELSE RefusedAfterPost(u))
    /\ [][\A u \in Uploads : RefusedAfterPost(u) => RefusedAfterPost(u)']_vars

\* C13 witness: one upload was answered 202 with an Operation-Location value that is
\* not text and returned an error, one was answered 200 with the header and returned
\* an error, and no task exists for either
C13_Witness ==
    \E u, v \in Uploads :
        /\ answer[u] = HttpResponse(202, Some(HeaderValue("url", FALSE)))
        /\ res[u] = "to_str" /\ ~HasTask(u)
        /\ answer[v] = HttpResponse(200, Some(HeaderValue("url", TRUE)))
        /\ res[v] = "status" /\ ~HasTask(v)

-----------------------------------------------------------------------------
\* Properties of the extraction

\* the call was handed an analysis result that has a first document
HasDocument(c) ==
    /\ body[c].kind = "json" /\ body[c].analyzeResult /\ body[c].documents
    /\ Len(body[c].docs) > 0

\* the Items array of the first document, as it is in the JSON text
JsonItems(c) == body[c].docs[1].Items

\* the positions of the items that have a unit price or a total price
Priced(items) ==
    {i \in 1..Len(items) : items[i].Price # NoneOpt \/ items[i].TotalPrice # NoneOpt}

\* the k-th smallest position of S
Nth(S, k) == CHOOSE i \in S : Cardinality({j \in S : j <= i}) = k

\* the same text with another Items array in its first document
WithItems(text, items) == [text EXCEPT !.docs[1].Items = items]

\* the call is past its extraction and runs its statements
Persisting(c) == pc[c] \in {"sad_receipt", "sad_products", "sad_prices"}

C15_CountIsQuantityOrOne ==
    /\ [](\A c \in Calls : (HasDocument(c) /\ Persisting(c)) =>
            \A k \in 1..Len(ItemsOf(c)) :
                LET item == JsonItems(c)[Nth(Priced(JsonItems(c)), k)] IN
                ItemsOf(c)[k].count = IF item.Quantity # NoneOpt THEN item.Quantity[1] ELSE 1)
    /\ [][\A c \in Calls : PersistOk(c) =>
            \A r \in PricesOf(prices', rid[c]) :
                \E k \in 1..Len(ItemsOf(c)), p \in products :
                    /\ p.id = r.product_id /\ p.name = ItemsOf(c)[k].name
                    /\ r.count = ItemsOf(c)[k].count
                    /\ r.unit_price = ItemsOf(c)[k].unit_price
       ]_vars

\* C15 witness: the receipt of DocC is persisted; its item "milk" has no quantity and
\* the unit price 8, and its price row has the count 1
C15_Witness ==
    \E c \in Calls, r \in prices, p \in products :
        /\ jerr[c] = "ok"
        /\ p.name = "milk" /\ r.product_id = p.id
        /\ r.count = 1 /\ r.unit_price = 8

\* C16: a call of save_analysis_data on an analysis result without analyzeResult,
\* without documents or with an empty documents list returns the missing-field error
\* in its first step; that step writes nothing, the call never runs a statement, and
\* every change of receipts, products or prices is the statement of some other call
\* that is past its extraction.
C16_MissingFieldFails ==
    /\ [](\A c \in Calls : (body[c].kind = "json" /\ ~HasDocument(c)) =>
            pc[c] = "done" /\ jerr[c] = "missing" /\ rid[c] = 0)
    /\ [][/\ \A c \in Calls :
                (pc[c] = "idle" /\ pc'[c] # "idle" /\ ~HasDocument(c)') => UNCHANGED dbvars
          /\ dbvars' # dbvars =>
                \E p \in Calls : HasDocument(p) /\ Persisting(p) /\ pc'[p] # pc[p]
       ]_vars

\* C16 witness: one call on a result without analyzeResult and one on a result with
\* an empty documents list have both failed, and the tables are empty
C16_Witness ==
    \E c, d \in Calls :
        /\ body[c] = RunningText /\ jerr[c] = "missing"
        /\ body[d] = EmptyDocuments /\ jerr[d] = "missing"
        /\ receipts = {} /\ products = {} /\ prices = {}

\* the date string and the time string of the call's document, joined by one space
Joined(c) == datetime_str(DecodeReceipt(body[c].docs[1]))

\* the string has the form YYYY-MM-DD HH:MM:SS of a calendar date and a time of day
WellFormed(s) == \E d \in ValidDates, t \in ValidTimes : s = d \o " " \o t

\* the local time is skipped (gap) or occurs twice (overlap) in the Copenhagen zone
NotUnique(s) == s \in GapLocals \cup OverlapLocals

\* C17: a call on a document whose joined date and time string is not of the form
\* YYYY-MM-DD HH:MM:SS, or names a local time in a gap or an overlap of the
\* Copenhagen zone, fails in its first step, which writes nothing, and never runs a
\* statement; on any other document the call goes on to its statements, and the
\* receipt row it inserts has that local time in the Copenhagen zone as paid_at.
C17_TimestampParsedOrFails ==
    /\ [](\A c \in Calls : HasDocument(c) =>
            IF ~WellFormed(Joined(c))
            THEN pc[c] = "done" /\ jerr[c] = "timestamp" /\ rid[c] = 0
            ELSE IF NotUnique(Joined(c))
            THEN pc[c] = "done" /\ jerr[c] = "ambiguous" /\ rid[c] = 0
            ELSE Persisting(c))
    /\ [][\A c \in Calls :
            /\ (pc[c] = "idle" /\ pc'[c] = "done") => UNCHANGED dbvars
            /\ (pc[c] = "sad_receipt" /\ pc'[c] = "sad_products") =>
                  \E r \in receipts' \ receipts :
                      /\ r.id = rid'[c] /\ r.file_sha256 = file[c]
                      /\ r.paid_at = [local |-> Joined(c), tz |-> "Europe/Copenhagen"]
       ]_vars

\* C17 witness: a call on 02:30 of the night the clocks go back has failed, and the
\* call on DocB has inserted its receipt, paid at 09:00:00 on 2024-03-06 in Copenhagen
C17_Witness ==
    \E c, d \in Calls, r \in receipts :
        /\ body[c] = DocOverlap /\ jerr[c] = "ambiguous"
        /\ body[d] = DocB /\ pc[d] = "sad_products" /\ r.id = rid[d]
        /\ r.paid_at = [local |-> "2024-03-06 09:00:00", tz |-> "Europe/Copenhagen"]

\* the merchant names of the model that contain "netto" when case is ignored
VendorMerchants == {"Netto", "NETTO", "netto", "Netto City"}

\* the date contents of the model that contain a hyphen
Hyphenated == {"2024-03-05", "2024-03-06", "2024-03-31", "2024-10-27", "05-03-2024"}

\* the date string the claim names for the document of the call
ClaimedDate(c) ==
    LET doc == body[c].docs[1] IN
    IF doc.MerchantName \in VendorMerchants /\ doc.TransactionDate.content \in Hyphenated
    THEN doc.TransactionDate.content
    ELSE doc.TransactionDate.valueDate

ClaimedStamp(c) == ClaimedDate(c) \o " " \o body[c].docs[1].TransactionTime

\* C18: the date string of the timestamp is the literal content of the transaction
\* date exactly when the merchant name contains "netto", case ignored, and the
\* content contains a hyphen, and the typed date value otherwise: a call goes on to
\* its statements exactly when the string so chosen, joined with the time, is a
\* well-formed and unique local time, and the receipt row it inserts is paid at it.
C18_DateStringChoice ==
    /\ [](\A c \in Calls : HasDocument(c) =>
            /\ date_str(DecodeReceipt(body[c].docs[1])) = ClaimedDate(c)
            /\ Persisting(c) <=>
                  (WellFormed(ClaimedStamp(c)) /\ ~NotUnique(ClaimedStamp(c))))
    /\ [][\A c \in Calls :
            (pc[c] = "sad_receipt" /\ pc'[c] = "sad_products") =>
                \E r \in receipts' \ receipts :
                    r.id = rid'[c] /\ r.paid_at.local = ClaimedStamp(c)
       ]_vars

\* C18 witness: the receipt of "NETTO" is paid on its content date 2024-03-05 (its
\* typed value says 2024-05-03), and the receipt of "Rema", whose content has hyphens
\* too, on its typed value 2024-05-03
C18_Witness ==
    \E r, q \in receipts :
        /\ r.merchant_name = "NETTO" /\ r.paid_at.local = "2024-03-05 14:30:00"
        /\ q.merchant_name = "Rema" /\ q.paid_at.local = "2024-05-03 09:00:00"

-----------------------------------------------------------------------------
\* Properties of a repopulation run

Task(r, h) == <<"re", r, h>>

\* the entries of the run: N of them, M of which do not decode
Entries == list(cache)

Undecodable == {h \in Entries : ~from_str(cache[h]).ok}

\* the entries that decode and pass the extraction of save_analysis_data
Extractable == {h \in Entries : Extracted(cache[h]).ok}

\* no other run has started
Alone(r) == \A q \in 1..MaxRepop : q # r => rpc[q] = "idle"

\* the run has listed the cache and every task it spawned has finished
RunOver(r) ==
    /\ Alone(r) /\ rpc[r] = "done"
    /\ \A h \in Entries : pc[Task(r, h)] = "done"

\* the task lost its connection to the store or to the database
ConnectionFailed(t) == jerr[t] \in {"load", "db", "commit"}

HashesOf(rows) == {row.file_sha256 : row \in rows}

WroteReceipt(t) == pc[t] \in {"sad_products", "sad_prices", "done"} /\ jerr[t] \notin {"load", "json", "missing", "timestamp", "ambiguous", "duplicate"}

\* the elements of a sequence
Range(q) == {q[i] : i \in DOMAIN q}

\* C20: within a run the three deletions come first and the per-entry tasks after
\* them: a run lists the cache only out of its DELETE FROM receipts, that only out of
\* its DELETE FROM products, that only out of its DELETE FROM prices, each having
\* emptied its table, and a task starts only in a turn of the loop that follows the
\* listing; so once a task of a run has started, no row from before the run is left:
\* every receipt row is the row of a task that has run its receipt statement.
\* Every hash listed gets exactly one attempt: the listing holds every entry once, a
\* turn of the loop starts the task of the first hash still waiting and removes it,
\* a task is started once, calls save_analysis_data at most once (when its text loads
\* and decodes), and never runs again after it has ended.
C20_ClearThenOneAttemptEach ==
    /\ [](\A r \in 1..MaxRepop :
            /\ (\E h \in Hashes : pc[Task(r, h)] # "idle") =>
                  /\ rpc[r] \in {"spawn", "done"}
                  /\ Alone(r) =>
                        /\ \A row \in receipts : WroteReceipt(Task(r, row.file_sha256))
                        /\ \A row \in prices : \E rec \in receipts : rec.id = row.receipt_id
                        /\ (receipts = {}) => (products = {} /\ prices = {})
            /\ Len(rqueue[r]) = Cardinality(Range(rqueue[r]))
            /\ \A h \in Range(rqueue[r]) : pc[Task(r, h)] = "idle"
            /\ (rpc[r] = "done" /\ \E h \in Hashes : pc[Task(r, h)] # "idle") =>
                  {h \in Hashes : pc[Task(r, h)] # "idle"} = Entries)
    /\ [][\A r \in 1..MaxRepop :
            /\ (rpc'[r] = "del_products" /\ rpc[r] # "del_products") =>
                  rpc[r] = "idle" /\ prices' = {}
            /\ (rpc'[r] = "del_receipts" /\ rpc[r] # "del_receipts") =>
                  rpc[r] = "del_products" /\ products' = {}
            /\ (rpc'[r] = "list" /\ rpc[r] # "list") =>
                  rpc[r] = "del_receipts" /\ receipts' = {}
            /\ (rpc'[r] = "spawn" /\ rpc[r] # "spawn") =>
                  /\ rpc[r] = "list"
                  /\ Range(rqueue'[r]) = Entries /\ Len(rqueue'[r]) = Cardinality(Entries)
            /\ \A h \in Hashes :
                  /\ (pc[Task(r, h)] = "idle" /\ pc'[Task(r, h)] # "idle") =>
                        /\ rpc[r] = "spawn" /\ h = Head(rqueue[r])
                        /\ rqueue'[r] = Tail(rqueue[r])
                        /\ pc'[Task(r, h)] = "load"
                  /\ pc'[Task(r, h)] = "load" => pc[Task(r, h)] \in {"idle", "load"}
                  /\ pc'[Task(r, h)] = "sad_receipt" => pc[Task(r, h)] \in {"load", "sad_receipt"}
                  /\ pc[Task(r, h)] = "done" => pc'[Task(r, h)] = "done"
       ]_vars

\* C20 witness: the tables held the rows of "h1" from before the run; the run is over,
\* both listed entries had their task, "h1" is persisted anew under a new receipt id
\* and the placeholder entry "h2" failed to decode
C20_Witness ==
    \E r \in 1..MaxRepop :
        /\ RunOver(r) /\ Entries = {"h1", "h2"} /\ cache["h2"] = EmptyText
        /\ jerr[Task(r, "h1")] = "ok" /\ jerr[Task(r, "h2")] = "json"
        /\ next_receipt_id = 3
        /\ \E row \in receipts : row.id = 2 /\ row.file_sha256 = "h1"

-----------------------------------------------------------------------------
\* Properties of the frame of repopulation

\* a step of a repopulation run or of one of the tasks it spawned
RepopStep ==
    \/ rpc' # rpc
    \/ rqueue' # rqueue
    \/ \E t \in RTasks : pc'[t] # pc[t] \/ rid'[t] # rid[t]

\* C21: repopulation issues no request to the remote service and writes nothing to
\* the cache: every step of a run and of its tasks leaves the cache, the count of
\* submissions, the count of polls and the answers of the remote service unchanged;
\* what it changes, besides its own position, is the three tables.
C21_RepopulationFrame ==
    [][RepopStep =>
          /\ UNCHANGED <<cache, submits, polls, answer>>
          /\ \A u \in Uploads : UNCHANGED <<pc[u], file[u], body[u], res[u], jerr[u]>>
          /\ UNCHANGED cpc]_vars

\* C21 witness: while an upload of the file is known, a task of a run has read its
\* entry out of the cache and persisted the receipt; the file was submitted once
C21_Witness ==
    \E t \in RTasks :
        /\ pc[t] = "done" /\ jerr[t] = "ok"
        /\ cache[file[t]] = DocA /\ submits[file[t]] = 1 /\ polls[t] = 0
        /\ \E row \in receipts : row.file_sha256 = file[t]

-----------------------------------------------------------------------------
\* Properties of the steps of a job

\* another upload of the same bytes was accepted too and has a task of its own
Rival(u) == \E v \in Uploads \ {u} : file[v] = file[u] /\ HasTask(v)

\* the task of the upload writes nothing from this step on
Abandoned(u) == pc'[u] = "done" /\ jerr'[u] \notin {"ok", "none"}

\* C22: a job's poll leaves the cache and the tables as they are; when the GET fails
\* in transport the job ends there, its cache entry still the empty placeholder
\* (unless the task of another accepted upload of the same bytes stored a body) and
\* nothing persisted; when the GET returns a response, the next step stores the raw
\* body under the job's hash, whether or not it decodes, before any row is written
\* (or ends the job when the body cannot be read or the cache cannot be written),
\* and goes on to persist only a body that decodes and extracts; a job whose
\* decoding or persistence failed is ended with that error and takes no further step.
C22_StoreThenDecodeThenPersist ==
    [][\A u \in Uploads :
          /\ pc[u] = "sleep" /\ pc'[u] # "sleep" =>
                /\ UNCHANGED <<cache, dbvars>>
                /\ IF pc'[u] = "done"
                   THEN /\ Abandoned(u) /\ jerr'[u] = "http"
                        /\ cache[file[u]] = EmptyText \/ Rival(u)
                   ELSE pc'[u] = "process" /\ body'[u] \in PollBodies
          /\ pc[u] = "process" /\ pc'[u] # "process" =>
                /\ UNCHANGED dbvars
                /\ IF pc'[u] = "done" /\ jerr'[u] \in {"text", "save"}
                   THEN UNCHANGED cache
                   ELSE /\ cache' = [cache EXCEPT ![file[u]] = body[u]]
                        /\ IF from_str(body[u]).ok /\ Extracted(body[u]).ok
                           THEN pc'[u] = "sad_receipt" /\ body'[u] = body[u]
                           ELSE Abandoned(u) /\ jerr'[u] = Extracted(body[u]).err
          /\ pc[u] \in {"sad_receipt", "sad_products", "sad_prices"} /\ pc'[u] # pc[u] =>
                /\ UNCHANGED cache
                /\ pc'[u] \in {"sad_products", "sad_prices"} \/ pc'[u] = "done"
          /\ Failed(u) =>
                UNCHANGED <<pc[u], jerr[u], body[u], rid[u], polls[u], res[u], file[u]>>]_vars

\* C22 witness: the GET of one job failed in transport and its entry is still the
\* placeholder, with no row for its file; the job of another file stored the body it
\* was answered with and persisted the receipt
C22_Witness ==
    \E u, v \in Uploads :
        /\ Failed(u) /\ jerr[u] = "http" /\ cache[file[u]] = EmptyText
        /\ \A row \in receipts : row.file_sha256 # file[u]
        /\ Completed(v) /\ cache[file[v]] = DocA
        /\ \E row \in receipts : row.file_sha256 = file[v]

-----------------------------------------------------------------------------
\* Termination of the jobs

\* the task is spawned and has not ended
Pending(u) == Submitted(u) \/ Polled(u)

\* C23: every background job spawned by an accepted upload eventually reaches a
\* terminal outcome, processed and persisted or failed with the error logged, when
\* the remote service, the cache and the database answer each of its requests; and
\* no pending job is cancelled: it ends only with one of these two outcomes.
C23_JobsTerminate ==
    /\ \A u \in Uploads : Pending(u) ~> (Completed(u) \/ Failed(u))
    /\ [][\A u \in Uploads :
             Pending(u) => Pending(u)' \/ Completed(u)' \/ Failed(u)']_vars

\* C23 witness: two jobs were spawned and both are over, one processed and
\* persisted, the other failed on the database after its body was stored
C23_Witness ==
    \E u, v \in Uploads :
        /\ Completed(u) /\ polls[u] = 1
        /\ Failed(v) /\ jerr[v] = "db" /\ polls[v] = 1
        /\ \A w \in Uploads : ~Pending(w)

-----------------------------------------------------------------------------
\* Properties of decoding

\* C24 as stated: decoding an analysis result never fails because one of the seven
\* receipt fields is absent: for every subset of absent fields decoding succeeds.
C24_AbsentFieldsDecode ==
    \A c \in Calls :
        res[c] = "decoded" /\ body[c] \in PartialDocs => jerr[c] = "ok"

-----------------------------------------------------------------------------
\* Properties of auth

\* the request carried a bearer token that is not the configured secret
Denied(q) == bearer[q] # NoneOpt /\ bearer[q][1] # client_secret

\* no handler runs for the request
NoHandler(q) ==
    IF q \in Uploads
    THEN /\ pc[q] = "done" /\ res[q] = "forbidden"
         /\ file[q] = "none" /\ polls[q] = 0 /\ answer[q] = NoAnswer /\ jerr[q] = "none"
    ELSE IF q = DeleteAll THEN cpc = "idle"
    ELSE rpc[q[2]] = "idle" /\ rqueue[q[2]] = <<>>

\* C25: a request whose bearer token is not exactly the configured client secret is
\* answered 403 on every route and no handler runs for it: the step that answers
\* it changes neither the cache nor the tables and counts no remote call, and the
\* request never has a handler or task.
C25_WrongTokenForbidden ==
    /\ [](\A q \in Requests : Denied(q) => NoHandler(q))
    /\ [][\A q \in Requests :
             bearer'[q] # bearer[q] /\ Denied(q)' =>
                UNCHANGED <<cache, submits, polls, dbvars, file, body, jerr, rid,
                            rqueue, answer, cpc, rpc>>]_vars

\* C25 witness: with a receipt cached and persisted, a request on each of the three
\* routes carried a token other than the secret (a longer one among them)
C25_Witness ==
    /\ \E u \in Uploads : Denied(u) /\ bearer[u][1] = <<"k", "e", "y", "s">>
    /\ Denied(DeleteAll) /\ Denied(PutAll(1))
    /\ cache["h1"] = DocA /\ receipts # {}

-----------------------------------------------------------------------------
\* Properties of the order of the writes to a cache entry

\* the entry holds a response body
Payload(text) == text \notin {NoEntry, EmptyText}

\* the upload writes its placeholder in this step
Reserves(u) == pc[u] = "reserve" /\ pc'[u] = "analyze"

-----------------------------------------------------------------------------
\* Properties of the bind limit

\* every item of the first document that filter_map keeps, before the limit
Kept(c) == filter_map(DecodeReceipt(body[c].docs[1]).items.value_array)

\* the first n elements of s, in order
FirstN(out, s, n) ==
    /\ Len(out) = Min(Len(s), n)
    /\ \A k \in 1..Len(out) : out[k] = s[k]

\* the tuples kept of a receipt with one priced item more than the bind limit
OverLimit == [i \in 1..(BIND_LIMIT + 1) |-> [name |-> "milk", count |-> 1, unit_price |-> i]]

-----------------------------------------------------------------------------
\* Properties of a refused submission

\* another upload of the same bytes passed its check and is still in its handler
StillInHandler(u) ==
    \E v \in Uploads \ {u} : file[v] = file[u] /\ pc[v] \in {"reserve", "analyze"}

-----------------------------------------------------------------------------
\* Properties of clear_db

\* the last DELETE of clear_db succeeds: the handler returns Ok
ClearReturnsOk == cpc = "del_receipts" /\ cpc' = "idle" /\ receipts' = {}

\* the task has run a statement of save_analysis_data
HasPersisted(p) ==
    \/ pc[p] \in {"sad_products", "sad_prices"}
    \/ pc[p] = "done" /\ jerr[p] \in {"ok", "db", "commit"}

\* no step removes a cache entry, and an upload of bytes that have an entry is rejected
EntriesStay ==
    /\ \A h \in Hashes : cache[h] # NoEntry => cache'[h] # NoEntry
    /\ \A u \in Uploads :
          pc[u] = "idle" /\ pc'[u] # "idle" /\ file'[u] \in Hashes
          /\ cache[file'[u]] # NoEntry =>
              pc'[u] = "done" /\ res'[u] \in {"known", "list"}

-----------------------------------------------------------------------------
\* Properties relating the receipts to the cache

\* the uploads of the bytes that passed the dedup check and wrote a placeholder
Reservers(h) == {u \in Uploads : file[u] = h /\ Reserved(u)}

\* a receipt row is inserted in this step, by a task that holds a body that extracts
InsertedFromBody ==
    receipts' \ receipts # {} =>
        \E p \in Procs :
            /\ pc[p] = "sad_receipt" /\ pc'[p] # "sad_receipt"
            /\ Payload(body[p]) /\ Extracted(body[p]).ok
            /\ \A row \in receipts' \ receipts : row.file_sha256 = file[p]

-----------------------------------------------------------------------------
\* the listing rows (product name, unit price, count, merchant name, paid-at) of the
\* tables as they are
Listing == show_all(receipts, prices, products)

\* the listing rows that persisting a response text gives
RowsOf(text) ==
    LET ex == Extracted(text).val
        items == unique_by(ex.items)
    IN {[name |-> items[i].name, unit_price |-> items[i].unit_price,
         count |-> items[i].count, merchant_name |-> ex.merchant_name,
         paid_at |-> ex.paid_at] : i \in 1..Len(items)}

\* the listing rows of the responses that the completed jobs persisted: a completed
\* job polled a response that extracts
RowsOfCompleted ==
    IF \E u \in Uploads : Completed(u)
    THEN UNION {RowsOf(text) : text \in {t \in PollBodies : Extracted(t).ok}}
    ELSE {}

\* no job failed on the database, so every row present was written by a completed job
NoFailedWriter == \A u \in Uploads : jerr[u] \notin {"db", "commit"}

\* clear_db has been called in a quiet state and has returned, and a repopulation
\* called after it has run to completion, all of its tasks with their connections
Replayed ==
    /\ Cleared /\ cpc = "idle" /\ Quiet
    /\ \E r \in 1..MaxRepop : RunOver(r)
    /\ \A t \in RTasks : ~ConnectionFailed(t)

\* the cache holds, under the hash of every completed job, the response that job
\* persisted, and holds no other response that extracts
PayloadsKept ==
    /\ \A u \in Uploads : Completed(u) => Extracted(cache[file[u]]).ok
    /\ \A h \in Hashes :
          Extracted(cache[h]).ok => \E u \in Uploads : Completed(u) /\ file[u] = h

====
